---- MODULE Spec2Model ----
(***************************************************************************)
(* A model of the LaTeX formatter: the lexer and recursive-descent parser  *)
(* of latexAST.js and the tree-to-text formatter of latexFormatter.ts.     *)
(*                                                                         *)
(* A string is a sequence of one-character strings.  Offsets into a text   *)
(* are 0-based as in the source: the character at offset i of t is         *)
(* t[i + 1].                                                               *)
(***************************************************************************)
EXTENDS Integers, Sequences, FiniteSets, TLC

VARIABLES text, phase, ast, error, log, output, pass, checks, edits, lexer

vars ==
  <<text, phase, ast, error, log, output, pass, checks, edits, lexer>>

----------------------------------------------------------------------------
(* Characters and strings                                                  *)

BS == "\\"
NL == "\n"
CR == "\r"
TAB == "\t"

Letters ==
  {"a","b","c","d","e","f","g","h","i","j","k","l","m",
   "n","o","p","q","r","s","t","u","v","w","x","y","z",
   "A","B","C","D","E","F","G","H","I","J","K","L","M",
   "N","O","P","Q","R","S","T","U","V","W","X","Y","Z"}

\* /[a-zA-Z]/.test(c)
IsLetter(c) == c \in Letters

\* /[a-zA-Z*]/.test(c)
IsLetterOrStar(c) == c \in Letters \cup {"*"}

\* the characters String.prototype.trim and trimStart remove
WhiteSpace == {" ", TAB, NL, CR}

\* the characters at which a plain text run stops
StopChars == {BS, "{", "}", "[", "]", "$", NL, CR}

\* text[i] for a 0-based offset i
At(t, i) == t[i + 1]

\* text.slice(from, to) for 0 <= from, to <= text.length
Slice(t, from, to) == IF to <= from THEN <<>> ELSE SubSeq(t, from + 1, to)

\* text.substring(from)
Substring(t, from) == Slice(t, from, Len(t))

RECURSIVE TrimStart(_)
TrimStart(s) ==
  IF s # <<>> /\ Head(s) \in WhiteSpace THEN TrimStart(Tail(s)) ELSE s

RECURSIVE TrimEnd(_)
TrimEnd(s) ==
  IF s # <<>> /\ s[Len(s)] \in WhiteSpace
    THEN TrimEnd(SubSeq(s, 1, Len(s) - 1))
    ELSE s

Trim(s) == TrimEnd(TrimStart(s))

RECURSIVE Concat(_)
\* array.join("") of an array of strings
Concat(ss) == IF ss = <<>> THEN <<>> ELSE Head(ss) \o Concat(Tail(ss))

----------------------------------------------------------------------------
(* Tokens                                                                  *)

TOKEN_COMMAND == "COMMAND"
TOKEN_TEXT == "TEXT"
TOKEN_LBRACE == "LBRACE"
TOKEN_RBRACE == "RBRACE"
TOKEN_LBRACKET == "LBRACKET"
TOKEN_RBRACKET == "RBRACKET"
TOKEN_EOF == "EOF"
TOKEN_MATH_INLINE == "MATH_INLINE"
TOKEN_MATH_DISPLAY == "MATH_DISPLAY"

\* new Token(type, value); escaped is the property set on escape sequences
Token(type, value, escaped) ==
  [type |-> type, value |-> value, escaped |-> escaped]

\* the result of one getNextToken call: the token and the lexer's new pos
Lexed(tok, pos) == [tok |-> tok, pos |-> pos]

----------------------------------------------------------------------------
(* Lexer                                                                   *)

RECURSIVE LineStartIndex(_, _)
\* the scan back from pos to the character after the previous line break
LineStartIndex(t, i) ==
  IF i > 0 /\ At(t, i - 1) # NL /\ At(t, i - 1) # CR
    THEN LineStartIndex(t, i - 1)
    ELSE i

NonWhitespaceFoundBeforePos(t, pos) ==
  \E k \in LineStartIndex(t, pos) .. (pos - 1) :
     At(t, k) # " " /\ At(t, k) # TAB

RECURSIVE ScanComment(_, _)
ScanComment(t, i) ==
  IF i < Len(t) /\ At(t, i) # NL /\ At(t, i) # CR
    THEN ScanComment(t, i + 1)
    ELSE i

RECURSIVE ScanDisplayMath(_, _)
ScanDisplayMath(t, i) ==
  IF i < Len(t) /\ ~(At(t, i) = "$" /\ i + 1 < Len(t) /\ At(t, i + 1) = "$")
    THEN ScanDisplayMath(t, i + 1)
    ELSE i

RECURSIVE ScanInlineMath(_, _)
ScanInlineMath(t, i) ==
  IF i < Len(t) /\ At(t, i) # "$" THEN ScanInlineMath(t, i + 1) ELSE i

RECURSIVE ScanCommandName(_, _)
ScanCommandName(t, i) ==
  IF i < Len(t) /\ IsLetterOrStar(At(t, i))
    THEN ScanCommandName(t, i + 1)
    ELSE i

RECURSIVE ScanPlainText(_, _)
ScanPlainText(t, i) ==
  IF i < Len(t) /\ At(t, i) \notin StopChars
    THEN ScanPlainText(t, i + 1)
    ELSE i

RECURSIVE GetNextToken(_, _)
\* Lexer.getNextToken with this.text = t and this.pos = pos
GetNextToken(t, pos) ==
  IF pos >= Len(t) THEN Lexed(Token(TOKEN_EOF, <<>>, FALSE), pos)
  ELSE IF At(t, pos) = "%" /\ ~NonWhitespaceFoundBeforePos(t, pos) THEN
    LET e == ScanComment(t, pos)
    IN  Lexed(Token(TOKEN_TEXT, Slice(t, pos, e), FALSE), e)
  ELSE LET current == At(t, pos) IN
  IF current = NL THEN Lexed(Token(TOKEN_TEXT, <<NL>>, FALSE), pos + 1)
  ELSE IF current = CR THEN
    IF pos + 1 < Len(t) /\ At(t, pos + 1) = NL
      THEN Lexed(Token(TOKEN_TEXT, <<CR, NL>>, FALSE), pos + 2)
      ELSE Lexed(Token(TOKEN_TEXT, <<CR>>, FALSE), pos + 1)
  ELSE IF current = "$" THEN
    IF pos + 1 < Len(t) /\ At(t, pos + 1) = "$"
      THEN LET e == ScanDisplayMath(t, pos + 2)
           IN  Lexed(Token(TOKEN_MATH_DISPLAY, Slice(t, pos + 2, e), FALSE),
                     IF e < Len(t) THEN e + 2 ELSE e)
      ELSE LET e == ScanInlineMath(t, pos + 1)
           IN  Lexed(Token(TOKEN_MATH_INLINE, Slice(t, pos + 1, e), FALSE),
                     IF e < Len(t) THEN e + 1 ELSE e)
  ELSE IF current = BS THEN
    IF pos + 1 < Len(t) /\ IsLetter(At(t, pos + 1))
      THEN LET e == ScanCommandName(t, pos + 1)
           IN  Lexed(Token(TOKEN_COMMAND, Slice(t, pos + 1, e), FALSE), e)
      ELSE IF pos + 1 < Len(t)
        THEN Lexed(Token(TOKEN_TEXT, <<BS, At(t, pos + 1)>>, TRUE), pos + 2)
        ELSE Lexed(Token(TOKEN_TEXT, <<BS>>, TRUE), pos + 1)
  ELSE IF current = "{" THEN Lexed(Token(TOKEN_LBRACE, <<"{">>, FALSE), pos + 1)
  ELSE IF current = "}" THEN Lexed(Token(TOKEN_RBRACE, <<"}">>, FALSE), pos + 1)
  ELSE IF current = "[" THEN Lexed(Token(TOKEN_LBRACKET, <<"[">>, FALSE), pos + 1)
  ELSE IF current = "]" THEN Lexed(Token(TOKEN_RBRACKET, <<"]">>, FALSE), pos + 1)
  ELSE LET e == ScanPlainText(t, pos) IN
    IF e > pos
      THEN Lexed(Token(TOKEN_TEXT, Slice(t, pos, e), FALSE), e)
      ELSE GetNextToken(t, pos)

\* the token of a parser that has read none
NoToken == Token("NONE", <<>>, FALSE)

\* new Lexer(text): the offset, the token the parser holds, and the numbers
\* of calls of getNextToken and of lookaheads made so far
NewLexer == [pos |-> 0, currentToken |-> NoToken, calls |-> 0, lookaheads |-> 0]

\* a call of getNextToken that hands out the token and leaves the offset
\* where it was
LexerAfter_KeepPos(lx, l) ==
  [lx EXCEPT !.currentToken = l.tok, !.calls = @ + 1]

\* currentToken = lexer.getNextToken(), l being what getNextToken returned
LexerAfter(lx, l) ==
  [lx EXCEPT !.pos = l.pos, !.currentToken = l.tok, !.calls = @ + 1]

----------------------------------------------------------------------------
(* AST nodes.  Every node is a record of the same shape; the fields a node  *)
(* class does not have hold the empty sequence or FALSE.                    *)
(* optionalArgument is <<>> for null and <<d>> for a Document d.            *)

Node(type, txt, escaped, content, inline, name, opt, req, envArgs, children) ==
  [type |-> type, text |-> txt, escaped |-> escaped, content |-> content,
   inline |-> inline, name |-> name, optionalArgument |-> opt,
   requiredArguments |-> req, environmentArguments |-> envArgs,
   children |-> children]

Document(children) ==
  Node("Document", <<>>, FALSE, <<>>, FALSE, <<>>, <<>>, <<>>, <<>>, children)

Text(txt, escaped) ==
  Node("Text", txt, escaped, <<>>, FALSE, <<>>, <<>>, <<>>, <<>>, <<>>)

MathNode(content, inline) ==
  Node("MathNode", <<>>, FALSE, content, inline, <<>>, <<>>, <<>>, <<>>, <<>>)

Command(name, optionalArgument, requiredArguments) ==
  Node("Command", <<>>, FALSE, <<>>, FALSE, name, optionalArgument,
       requiredArguments, <<>>, <<>>)

Environment(name, children, environmentArguments) ==
  Node("Environment", <<>>, FALSE, <<>>, FALSE, name, <<>>, <<>>,
       environmentArguments, children)

sBegin == <<"b","e","g","i","n">>
sEnd == <<"e","n","d">>

mathEnvs ==
  { <<"e","q","u","a","t","i","o","n">>,
    <<"e","q","u","a","t","i","o","n","*">>,
    <<"a","l","i","g","n">>,
    <<"a","l","i","g","n","*">>,
    <<"g","a","t","h","e","r">>,
    <<"g","a","t","h","e","r","*">>,
    <<"m","u","l","t","l","i","n","e">>,
    <<"m","u","l","t","l","i","n","e","*">>,
    <<"s","p","l","i","t">>,
    <<"a","r","r","a","y">>,
    <<"s","u","b","e","q","u","a","t","i","o","n","s">> }

----------------------------------------------------------------------------
(* Parser.  A parser state holds the lexer's pos, the current token, the   *)
(* Error thrown so far (NoError while none is) and the console.warn lines. *)
(* A thrown Error ends every enclosing loop and function.                  *)

Err(kind, name) == [kind |-> kind, name |-> name]

NoError == Err("none", <<>>)

Throw(p, kind, name) == [p EXCEPT !.err = Err(kind, name)]

Warn(p, kind, name) == [p EXCEPT !.log = Append(@, Err(kind, name))]

\* currentToken = lexer.getNextToken(), l being what getNextToken returned
Advance(p, l) == [p EXCEPT !.pos = l.pos, !.currentToken = l.tok]

\* new Parser(lexer): the constructor reads the first token
NewParser(t) ==
  Advance([pos |-> 0, currentToken |-> Token(TOKEN_EOF, <<>>, FALSE),
           err |-> NoError, log |-> <<>>],
          GetNextToken(t, 0))

\* Parser.eat that checks the type of the current token and reads no token
Eat_Unmoved(t, p, tokenType) ==
  IF p.err # NoError THEN p
  ELSE IF p.currentToken.type = tokenType
    THEN p
    ELSE Throw(p, "eat", <<>>)

\* Parser.eat
Eat(t, p, tokenType) ==
  IF p.err # NoError THEN p
  ELSE IF p.currentToken.type = tokenType
    THEN Advance(p, GetNextToken(t, p.pos))
    ELSE Throw(p, "eat", <<>>)

\* the result of parseElement and of the functions it calls: the parser
\* state and the node returned, <<>> for null
Parsed(p, node) == [p |-> p, node |-> node]

\* the value a token adds to an environment name or to raw math content
NamePart(tok) == (IF tok.type = TOKEN_COMMAND THEN <<BS>> ELSE <<>>) \o tok.value

RECURSIVE LookaheadEnvName(_, _, _)

\* one turn of the lookahead name loop, l being the token just read
LookaheadNameStep(sub, l, acc) ==
  IF l.tok.type # TOKEN_RBRACE /\ l.tok.type # TOKEN_EOF
    THEN LookaheadEnvName(sub, l.pos, acc \o NamePart(l.tok))
    ELSE [tok |-> l.tok, name |-> acc]

\* the name the lookahead lexer collects up to RBRACE or EOF
LookaheadEnvName(sub, lpos, acc) ==
  LookaheadNameStep(sub, GetNextToken(sub, lpos), acc)

\* the lookahead comparing the name it collected untrimmed
LookaheadAfterBrace_Untrimmed(sub, lbrace, r, trimmedEnvName) ==
  /\ lbrace.tok.type = TOKEN_LBRACE
  /\ r.tok.type = TOKEN_RBRACE
  /\ r.name = trimmedEnvName

\* the lookahead after its first token lbrace
LookaheadAfterBrace(sub, lbrace, r, trimmedEnvName) ==
  /\ lbrace.tok.type = TOKEN_LBRACE
  /\ r.tok.type = TOKEN_RBRACE
  /\ Trim(r.name) = trimmedEnvName

\* the lookahead lexer over sub = text.substring(currentLexerPos)
LookaheadOver(sub, lbrace, trimmedEnvName) ==
  LookaheadAfterBrace(sub, lbrace, LookaheadEnvName(sub, lbrace.pos, <<>>),
                      trimmedEnvName)

\* the lookahead of both environment loops: does {name} follow \end ?
LookaheadMatches(t, currentLexerPos, trimmedEnvName) ==
  LookaheadOver(Substring(t, currentLexerPos),
                GetNextToken(Substring(t, currentLexerPos), 0),
                trimmedEnvName)

RECURSIVE ParseEndName(_, _, _)
\* the loop collecting the name of the real \end{name}
ParseEndName(t, p, acc) ==
  IF p.err = NoError /\ p.currentToken.type # TOKEN_RBRACE
                     /\ p.currentToken.type # TOKEN_EOF
    THEN ParseEndName(t, Eat(t, p, p.currentToken.type),
                      acc \o NamePart(p.currentToken))
    ELSE [p |-> p, name |-> acc]

RECURSIVE ParseEnvName(_, _, _)
\* the loop collecting the name of \begin{name}
ParseEnvName(t, p, acc) ==
  IF p.err = NoError /\ p.currentToken.type \in {TOKEN_TEXT, TOKEN_COMMAND}
    THEN ParseEnvName(t, Eat(t, p, p.currentToken.type),
                      acc \o NamePart(p.currentToken))
    ELSE [p |-> p, name |-> acc]

RECURSIVE ParseMathContent(_, _, _, _, _)
\* the while (true) loop of a math environment
ParseMathContent(t, p, trimmedEnvName, mathContent, braceDepth) ==
  IF p.err # NoError THEN [p |-> p, content |-> mathContent]
  ELSE IF p.currentToken.type = TOKEN_EOF
    THEN [p |-> Warn(p, "EOF in math env", trimmedEnvName),
          content |-> mathContent]
  ELSE IF /\ p.currentToken.type = TOKEN_COMMAND
          /\ p.currentToken.value = sEnd
          /\ braceDepth = 0
          /\ LookaheadMatches(t, p.pos, trimmedEnvName)
    THEN [p |-> p, content |-> mathContent]
  ELSE ParseMathContent(t, Eat(t, p, p.currentToken.type), trimmedEnvName,
         mathContent \o NamePart(p.currentToken),
         IF p.currentToken.type = TOKEN_LBRACE THEN braceDepth + 1
         ELSE IF p.currentToken.type = TOKEN_RBRACE THEN braceDepth - 1
         ELSE braceDepth)

\* the end of the real \end{name}, r being the name loop's result: the "}"
\* and the comparison of the names
CheckEndName(t, r, trimmedEnvName, kind) ==
  IF r.p.currentToken.type # TOKEN_RBRACE
    THEN Throw(r.p, "Expected } for \\end name in " \o kind \o " environment",
               trimmedEnvName)
  ELSE IF trimmedEnvName # Trim(r.name)
    THEN Throw(Eat(t, r.p, TOKEN_RBRACE),
               IF kind = "math" THEN "Math env name mismatch"
               ELSE "Non-math env name mismatch",
               trimmedEnvName)
  ELSE Eat(t, r.p, TOKEN_RBRACE)

\* the real \end{name} after the \end token: "{", the name, "}"
ParseEndGroup(t, p1, trimmedEnvName, kind) ==
  IF p1.currentToken.type # TOKEN_LBRACE
    THEN Throw(p1, "Expected { after \\end for " \o kind \o " environment",
               trimmedEnvName)
    ELSE CheckEndName(t, ParseEndName(t, Eat(t, p1, TOKEN_LBRACE), <<>>),
                      trimmedEnvName, kind)

\* what follows the loop of a math environment
ParseMathEnd(t, p, trimmedEnvName) ==
  IF p.err # NoError THEN p
  ELSE IF p.currentToken.type = TOKEN_COMMAND /\ p.currentToken.value = sEnd
    THEN ParseEndGroup(t, Eat(t, p, TOKEN_COMMAND), trimmedEnvName, "math")
    ELSE Throw(p, "Expected \\end for math environment", trimmedEnvName)

\* what follows the loop of a non-math environment with EOF refused as in a
\* math environment
ParseNonMathEnd_Strict(t, p, trimmedEnvName) ==
  IF p.err # NoError THEN p
  ELSE IF p.currentToken.type = TOKEN_COMMAND /\ p.currentToken.value = sEnd
    THEN ParseEndGroup(t, Eat(t, p, TOKEN_COMMAND), trimmedEnvName, "non-math")
    ELSE Throw(p, "Expected \\end for non-math environment", trimmedEnvName)

\* what follows the loop of a non-math environment; EOF is let through
ParseNonMathEnd(t, p, trimmedEnvName) ==
  IF p.err # NoError THEN p
  ELSE IF p.currentToken.type = TOKEN_COMMAND /\ p.currentToken.value = sEnd
    THEN ParseEndGroup(t, Eat(t, p, TOKEN_COMMAND), trimmedEnvName, "non-math")
  ELSE IF p.currentToken.type # TOKEN_EOF
    THEN Throw(p, "Expected \\end for non-math environment", trimmedEnvName)
  ELSE p

RECURSIVE ParseElement(_, _)
RECURSIVE ParseGroup(_, _, _, _)
RECURSIVE ParseRequiredArguments(_, _, _, _)
RECURSIVE ParseCommand(_, _)
RECURSIVE ParseEnvironmentArguments(_, _, _, _)
RECURSIVE ParseEnvChildren(_, _, _, _)
RECURSIVE ParseEnvironment(_, _)

\* the force-consume after parseElement returned r: the element is null and
\* the current token is still the one parseElement was given (no token was
\* read, so the lexer did not move)
ForceConsume(t, before, r) ==
  IF /\ r.node = <<>>
     /\ r.p.err = NoError
     /\ r.p.currentToken = before.currentToken /\ r.p.pos = before.pos
     /\ r.p.currentToken.type # TOKEN_EOF
    THEN Eat(t, r.p, r.p.currentToken.type)
    ELSE r.p

\* parseElement given \end with \end parsed as a command like any other
StrayEnd_AsCommand(t, p) == ParseCommand(t, p)

\* parseElement given \end: the token is eaten and null is returned
StrayEnd(t, p) == Parsed(Eat(t, p, TOKEN_COMMAND), <<>>)

\* Parser.parseElement
ParseElement(t, p) ==
  LET token == p.currentToken IN
  IF p.err # NoError THEN Parsed(p, <<>>)
  ELSE IF token.type = TOKEN_TEXT
    THEN Parsed(Eat(t, p, TOKEN_TEXT), <<Text(token.value, token.escaped)>>)
  ELSE IF token.type \in {TOKEN_MATH_INLINE, TOKEN_MATH_DISPLAY}
    THEN Parsed(Eat(t, p, token.type),
                <<MathNode(token.value, token.type = TOKEN_MATH_INLINE)>>)
  ELSE IF token.type = TOKEN_COMMAND
    THEN IF token.value = sBegin THEN ParseEnvironment(t, p)
         ELSE IF token.value = sEnd THEN StrayEnd(t, p)
         ELSE ParseCommand(t, p)
  ELSE IF token.type \in {TOKEN_LBRACE, TOKEN_RBRACE,
                          TOKEN_LBRACKET, TOKEN_RBRACKET}
    THEN Parsed(Eat(t, p, token.type), <<Text(token.value, FALSE)>>)
  ELSE Parsed(p, <<>>)

\* one turn of an argument group's loop, r being what parseElement returned
GroupStep(t, p, r, closer, nodes) ==
  ParseGroup(t, ForceConsume(t, p, r), closer, nodes \o r.node)

\* the loop filling one argument group: elements up to closer or EOF
ParseGroup(t, p, closer, nodes) ==
  IF /\ p.err = NoError
     /\ p.currentToken.type # closer
     /\ p.currentToken.type # TOKEN_EOF
    THEN GroupStep(t, p, ParseElement(t, p), closer, nodes)
    ELSE [p |-> p, nodes |-> nodes]

\* the end of a {..} group of a command with a group that runs to EOF
\* accepted
RequiredGroupEnd_Tolerant(t, g, commandName, requiredArguments) ==
  IF g.p.err # NoError THEN [p |-> g.p, args |-> requiredArguments]
  ELSE IF g.p.currentToken.type = TOKEN_RBRACE
    THEN ParseRequiredArguments(t, Eat(t, g.p, TOKEN_RBRACE), commandName,
                                Append(requiredArguments, Document(g.nodes)))
    ELSE [p |-> g.p, args |-> Append(requiredArguments, Document(g.nodes))]

\* the end of a {..} group of a command, g being the group loop's result:
\* the "}" or the throw, then the next group
RequiredGroupEnd(t, g, commandName, requiredArguments) ==
  IF g.p.err # NoError THEN [p |-> g.p, args |-> requiredArguments]
  ELSE IF g.p.currentToken.type = TOKEN_RBRACE
    THEN ParseRequiredArguments(t, Eat(t, g.p, TOKEN_RBRACE), commandName,
                                Append(requiredArguments, Document(g.nodes)))
    ELSE [p |-> Throw(g.p, "Unclosed required argument for command",
                      commandName),
          args |-> requiredArguments]

\* the while loop over the {..} groups of a command
ParseRequiredArguments(t, p, commandName, requiredArguments) ==
  IF p.err = NoError /\ p.currentToken.type = TOKEN_LBRACE
    THEN RequiredGroupEnd(t,
           ParseGroup(t, Eat(t, p, TOKEN_LBRACE), TOKEN_RBRACE, <<>>),
           commandName, requiredArguments)
    ELSE [p |-> p, args |-> requiredArguments]

\* return new Command(..), r being the required arguments loop's result
CommandNode(commandName, optionalArgument, r) ==
  IF r.p.err # NoError THEN Parsed(r.p, <<>>)
  ELSE Parsed(r.p, <<Command(commandName, optionalArgument, r.args)>>)

\* parseCommand from the required arguments on
CommandAfterOptional(t, p, commandName, optionalArgument) ==
  CommandNode(commandName, optionalArgument,
              ParseRequiredArguments(t, p, commandName, <<>>))

\* the end of the [..] group, g being the group loop's result
OptionalGroupEnd(t, g, commandName) ==
  CommandAfterOptional(t,
    IF g.p.err # NoError THEN g.p
    ELSE IF g.p.currentToken.type = TOKEN_RBRACKET
      THEN Eat(t, g.p, TOKEN_RBRACKET)
      ELSE Throw(g.p, "Unclosed optional argument for command", commandName),
    commandName, <<Document(g.nodes)>>)

\* parseCommand after the command token has been eaten
CommandAfterName(t, p, commandName) ==
  IF p.err = NoError /\ p.currentToken.type = TOKEN_LBRACKET
    THEN OptionalGroupEnd(t,
           ParseGroup(t, Eat(t, p, TOKEN_LBRACKET), TOKEN_RBRACKET, <<>>),
           commandName)
    ELSE CommandAfterOptional(t, p, commandName, <<>>)

\* Parser.parseCommand
ParseCommand(t, p) ==
  CommandAfterName(t, Eat(t, p, TOKEN_COMMAND), p.currentToken.value)

\* the end of a {..} group after \begin{name}, g being the group loop's
\* result
EnvironmentGroupEnd(t, g, trimmedEnvName, environmentArguments) ==
  IF g.p.err # NoError THEN [p |-> g.p, args |-> environmentArguments]
  ELSE IF g.p.currentToken.type = TOKEN_RBRACE
    THEN ParseEnvironmentArguments(t, Eat(t, g.p, TOKEN_RBRACE),
           trimmedEnvName, Append(environmentArguments, Document(g.nodes)))
    ELSE [p |-> Throw(g.p, "Unclosed argument for environment",
                      trimmedEnvName),
          args |-> environmentArguments]

\* the while loop over the {..} groups that follow \begin{name}
ParseEnvironmentArguments(t, p, trimmedEnvName, environmentArguments) ==
  IF p.err = NoError /\ p.currentToken.type = TOKEN_LBRACE
    THEN EnvironmentGroupEnd(t,
           ParseGroup(t, Eat(t, p, TOKEN_LBRACE), TOKEN_RBRACE, <<>>),
           trimmedEnvName, environmentArguments)
    ELSE [p |-> p, args |-> environmentArguments]

\* one turn of a non-math environment's loop, r being what parseElement
\* returned
EnvChildrenStep(t, p, r, trimmedEnvName, children) ==
  ParseEnvChildren(t, ForceConsume(t, p, r), trimmedEnvName,
                   children \o r.node)

\* the while (true) loop of a non-math environment
ParseEnvChildren(t, p, trimmedEnvName, children) ==
  IF p.err # NoError THEN [p |-> p, children |-> children]
  ELSE IF p.currentToken.type = TOKEN_EOF
    THEN [p |-> Warn(p, "EOF in non-math env", trimmedEnvName),
          children |-> children]
  ELSE IF /\ p.currentToken.type = TOKEN_COMMAND
          /\ p.currentToken.value = sEnd
          /\ LookaheadMatches(t, p.pos, trimmedEnvName)
    THEN [p |-> p, children |-> children]
  ELSE EnvChildrenStep(t, p, ParseElement(t, p), trimmedEnvName, children)

\* return new Environment(..), pe being the parser after the \end{name}
EnvironmentNode(pe, trimmedEnvName, children, environmentArguments) ==
  IF pe.err # NoError THEN Parsed(pe, <<>>)
  ELSE Parsed(pe, <<Environment(trimmedEnvName, children,
                                environmentArguments)>>)

\* the math branch after its loop returned m
MathEnvironmentEnd(t, m, trimmedEnvName, environmentArguments) ==
  EnvironmentNode(ParseMathEnd(t, m.p, trimmedEnvName), trimmedEnvName,
                  <<Text(m.content, TRUE)>>, environmentArguments)

\* the non-math branch after its loop returned c
NonMathEnvironmentEnd(t, c, trimmedEnvName, environmentArguments) ==
  EnvironmentNode(ParseNonMathEnd(t, c.p, trimmedEnvName), trimmedEnvName,
                  c.children, environmentArguments)

\* parseEnvironment after the arguments loop returned a
EnvironmentBody(t, a, trimmedEnvName) ==
  IF a.p.err # NoError THEN Parsed(a.p, <<>>)
  ELSE IF trimmedEnvName \in mathEnvs
    THEN MathEnvironmentEnd(t,
           ParseMathContent(t, a.p, trimmedEnvName, <<>>, 0),
           trimmedEnvName, a.args)
    ELSE NonMathEnvironmentEnd(t,
           ParseEnvChildren(t, a.p, trimmedEnvName, <<>>),
           trimmedEnvName, a.args)

\* parseEnvironment after the name loop returned n
EnvironmentAfterName(t, n) ==
  IF n.p.err # NoError THEN Parsed(n.p, <<>>)
  ELSE IF n.p.currentToken.type # TOKEN_RBRACE
    THEN Parsed(Throw(n.p, "Expected RBRACE for environment name", <<>>), <<>>)
  ELSE EnvironmentBody(t,
         ParseEnvironmentArguments(t, Eat(t, n.p, TOKEN_RBRACE),
                                   Trim(n.name), <<>>),
         Trim(n.name))

\* parseEnvironment after \begin has been eaten
EnvironmentAfterBegin(t, p) ==
  IF p.err # NoError THEN Parsed(p, <<>>)
  ELSE IF p.currentToken.type # TOKEN_LBRACE
    THEN Parsed(Throw(p, "Expected { after \\begin", <<>>), <<>>)
  ELSE EnvironmentAfterName(t, ParseEnvName(t, Eat(t, p, TOKEN_LBRACE), <<>>))

\* Parser.parseEnvironment
ParseEnvironment(t, p) == EnvironmentAfterBegin(t, Eat(t, p, TOKEN_COMMAND))

RECURSIVE ParseTopLevel(_, _, _)

\* one turn of the loop of Parser.parse, r being what parseElement returned
TopLevelStep(t, p, r, nodes) ==
  ParseTopLevel(t, ForceConsume(t, p, r), nodes \o r.node)

\* the while loop of Parser.parse
ParseTopLevel(t, p, nodes) ==
  IF p.err = NoError /\ p.currentToken.type # TOKEN_EOF
    THEN TopLevelStep(t, p, ParseElement(t, p), nodes)
    ELSE [p |-> p, nodes |-> nodes]

\* no tree: what parseLatex leaves when it throws
NoTree ==
  Node("none", <<>>, FALSE, <<>>, FALSE, <<>>, <<>>, <<>>, <<>>, <<>>)

\* what parseLatex returns or throws, r being the result of Parser.parse
ParseResult(r) ==
  [ok |-> r.p.err = NoError,
   ast |-> IF r.p.err = NoError THEN Document(r.nodes) ELSE NoTree,
   error |-> r.p.err,
   log |-> r.p.log]

\* parseLatex: the Document, or the Error thrown, and the warnings logged
ParseLatex(t) == ParseResult(ParseTopLevel(t, NewParser(t), <<>>))

----------------------------------------------------------------------------
(* Formatter                                                               *)

rawArgumentCommands ==
  { <<"i","n","p","u","t">>,
    <<"i","n","c","l","u","d","e">>,
    <<"i","n","c","l","u","d","e","g","r","a","p","h","i","c","s">>,
    <<"l","a","b","e","l">>,
    <<"r","e","f">>,
    <<"e","q","r","e","f">>,
    <<"c","i","t","e">>,
    <<"b","i","b","i","t","e","m">>,
    <<"u","r","l">>,
    <<"h","r","e","f">> }

sHref == <<"h","r","e","f">>
unknownCommand == <<"u","n","k","n","o","w","n","C","o","m","m","a","n","d">>
unknownCmd == <<"u","n","k","n","o","w","n","C","m","d">>
unknownEnv == <<"u","n","k","n","o","w","n","E","n","v">>

\* x || dflt for a string x
OrElse(x, dflt) == IF x = <<>> THEN dflt ELSE x

\* the characters escapeNonComment puts a backslash before
SpecialChars == {"#", "$", "&", "_", "^", "{", "}"}

RECURSIVE EscapeNonComment_Tilde(_)
\* escapeNonComment with "~" among the escaped characters
EscapeNonComment_Tilde(s) ==
  IF s = <<>> THEN <<>>
  ELSE (IF Head(s) \in SpecialChars \cup {"~"}
          THEN <<BS, Head(s)>> ELSE <<Head(s)>>)
       \o EscapeNonComment_Tilde(Tail(s))

RECURSIVE EscapeNonComment(_)
\* text.replace(/([#$&_^{}])/g, "\\$1")
EscapeNonComment(s) ==
  IF s = <<>> THEN <<>>
  ELSE (IF Head(s) \in SpecialChars THEN <<BS, Head(s)>> ELSE <<Head(s)>>)
       \o EscapeNonComment(Tail(s))

RECURSIVE FirstUnescapedPercentFrom(_, _)
FirstUnescapedPercentFrom(line, i) ==
  IF i >= Len(line) THEN -1
  ELSE IF At(line, i) = "%" /\ (i = 0 \/ At(line, i - 1) # BS) THEN i
  ELSE FirstUnescapedPercentFrom(line, i + 1)

RECURSIVE FirstPercentFrom(_, _)
FirstPercentFrom(line, i) ==
  IF i >= Len(line) THEN -1
  ELSE IF At(line, i) = "%" THEN i
  ELSE FirstPercentFrom(line, i + 1)

\* findFirstUnescapedPercent without the test of the preceding backslash
FindFirstPercent(line) == FirstPercentFrom(line, 0)

\* the offset of the first "%" not preceded by a backslash, or -1
FindFirstUnescapedPercent(line) == FirstUnescapedPercentFrom(line, 0)

RECURSIVE SplitLines(_, _)
\* text.split("\n"), cur being the line collected so far
SplitLines(s, cur) ==
  IF s = <<>> THEN <<cur>>
  ELSE IF Head(s) = NL THEN <<cur>> \o SplitLines(Tail(s), <<>>)
  ELSE SplitLines(Tail(s), Append(cur, Head(s)))

RECURSIVE JoinLines(_)
\* lines.join("\n")
JoinLines(lines) ==
  IF Len(lines) = 0 THEN <<>>
  ELSE IF Len(lines) = 1 THEN lines[1]
  ELSE lines[1] \o <<NL>> \o JoinLines(Tail(lines))

\* the callback escapeSpecialChars maps over the lines
EscapeLine(line) ==
  LET t == TrimStart(line) IN
  IF t # <<>> /\ Head(t) = "%" THEN line
  ELSE LET idx == FindFirstUnescapedPercent(line) IN
       IF idx # -1
         THEN EscapeNonComment(Slice(line, 0, idx)) \o Substring(line, idx)
         ELSE EscapeNonComment(line)

\* escapeSpecialChars
EscapeSpecialChars(s) ==
  LET lines == SplitLines(s, <<>>)
  IN  JoinLines([i \in 1..Len(lines) |-> EscapeLine(lines[i])])

RECURSIVE Indent(_)
\* "  ".repeat(indentLevel)
Indent(indentLevel) ==
  IF indentLevel > 0 THEN <<" ", " ">> \o Indent(indentLevel - 1) ELSE <<>>

sBeginOpen == <<BS, "b","e","g","i","n","{">>
sEndOpen == <<BS, "e","n","d","{">>

RECURSIVE FormatRawNode(_)
\* formatRawNode
FormatRawNode(node) ==
  IF node.type = "Document"
    THEN Concat([i \in 1..Len(node.children) |->
                   FormatRawNode(node.children[i])])
  ELSE IF node.type = "Text" THEN node.text
  ELSE IF node.type = "MathNode"
    THEN IF node.inline THEN <<"$">> \o node.content \o <<"$">>
         ELSE <<"$","$",NL>> \o Trim(node.content) \o <<NL,"$","$">>
  ELSE IF node.type = "Command"
    THEN <<BS>> \o OrElse(node.name, unknownCmd)
         \o (IF node.optionalArgument # <<>>
               THEN <<"[">> \o FormatRawNode(node.optionalArgument[1]) \o <<"]">>
               ELSE <<>>)
         \o Concat([i \in 1..Len(node.requiredArguments) |->
                      <<"{">> \o FormatRawNode(node.requiredArguments[i])
                      \o <<"}">>])
  ELSE IF node.type = "Environment"
    THEN sBeginOpen \o OrElse(node.name, unknownEnv) \o <<"}", NL>>
         \o Concat([i \in 1..Len(node.children) |->
                      FormatRawNode(node.children[i])])
         \o <<NL>> \o sEndOpen \o OrElse(node.name, unknownEnv) \o <<"}">>
  ELSE <<>>

RECURSIVE FormatNode(_, _)

\* case "Text" of formatNode with the escaped flag left unread
FormatText_Reescaping(node) == EscapeSpecialChars(node.text)

\* case "Text" of formatNode
FormatText(node) ==
  IF node.escaped THEN node.text ELSE EscapeSpecialChars(node.text)

\* case "Math" / "MathNode" of formatNode with the content of a display span
\* left untrimmed
FormatMath_Untrimmed(node, indentLevel) ==
  LET indent == Indent(indentLevel) IN
  IF node.inline THEN <<"$">> \o node.content \o <<"$">>
  ELSE <<"$","$",NL>> \o indent \o node.content
       \o <<NL>> \o indent \o <<"$","$">>

\* case "Math" / "MathNode" of formatNode
FormatMath(node, indentLevel) ==
  LET indent == Indent(indentLevel) IN
  IF node.inline THEN <<"$">> \o node.content \o <<"$">>
  ELSE <<"$","$",NL>> \o indent \o Trim(node.content)
       \o <<NL>> \o indent \o <<"$","$">>

\* case "Command" of formatNode with no raw-argument command names:
\* every argument is rendered in normal mode
FormatCommand_Escaping(node) ==
  <<BS>> \o OrElse(node.name, unknownCommand)
  \o (IF node.optionalArgument # <<>>
        THEN <<"[">> \o FormatNode(node.optionalArgument[1], 0) \o <<"]">>
        ELSE <<>>)
  \o Concat([i \in 1..Len(node.requiredArguments) |->
       <<"{">> \o FormatNode(node.requiredArguments[i], 0) \o <<"}">>])

\* case "Command" of formatNode without the special case of \href: every
\* argument of a raw-argument command is rendered in raw mode
FormatCommand_AllRaw(node) ==
  LET raw == node.name \in rawArgumentCommands IN
  <<BS>> \o OrElse(node.name, unknownCommand)
  \o (IF node.optionalArgument # <<>>
        THEN <<"[">>
             \o (IF raw THEN FormatRawNode(node.optionalArgument[1])
                 ELSE FormatNode(node.optionalArgument[1], 0))
             \o <<"]">>
        ELSE <<>>)
  \o Concat([i \in 1..Len(node.requiredArguments) |->
       <<"{">>
       \o (IF raw THEN FormatRawNode(node.requiredArguments[i])
           ELSE FormatNode(node.requiredArguments[i], 0))
       \o <<"}">>])

\* case "Command" of formatNode; formatAST(arg) is FormatNode(arg, 0), and
\* requiredArguments.indexOf(arg) is i - 1 (the arguments are distinct
\* objects)
FormatCommand(node) ==
  LET raw == node.name \in rawArgumentCommands IN
  <<BS>> \o OrElse(node.name, unknownCommand)
  \o (IF node.optionalArgument # <<>>
        THEN <<"[">>
             \o (IF raw THEN FormatRawNode(node.optionalArgument[1])
                 ELSE FormatNode(node.optionalArgument[1], 0))
             \o <<"]">>
        ELSE <<>>)
  \o Concat([i \in 1..Len(node.requiredArguments) |->
       <<"{">>
       \o (IF raw /\ ~(node.name = sHref /\ i - 1 = 1)
             THEN FormatRawNode(node.requiredArguments[i])
             ELSE FormatNode(node.requiredArguments[i], 0))
       \o <<"}">>])

\* case "Environment" of formatNode without the math branch: every block
\* is laid out on lines of its own
FormatEnvironment_Reflow(node, indentLevel) ==
  LET indent == Indent(indentLevel)
      currentEnvName == Trim(OrElse(node.name, unknownEnv))
      envBeginStr ==
        indent \o sBeginOpen \o currentEnvName \o <<"}">>
        \o Concat([i \in 1..Len(node.environmentArguments) |->
             <<"{">> \o FormatRawNode(node.environmentArguments[i])
             \o <<"}">>])
  IN  envBeginStr \o <<NL>>
      \o Concat([i \in 1..Len(node.children) |->
                   FormatNode(node.children[i], indentLevel + 1)])
      \o <<NL>> \o indent \o sEndOpen \o currentEnvName \o <<"}">>

\* case "Environment" of formatNode with the children of a block rendered
\* at the indent level of the block
FormatEnvironment_SameLevel(node, indentLevel) ==
  LET indent == Indent(indentLevel)
      currentEnvName == Trim(OrElse(node.name, unknownEnv))
      envBeginStr ==
        indent \o sBeginOpen \o currentEnvName \o <<"}">>
        \o Concat([i \in 1..Len(node.environmentArguments) |->
             <<"{">> \o FormatRawNode(node.environmentArguments[i])
             \o <<"}">>])
  IN  IF currentEnvName \in mathEnvs
        THEN envBeginStr
             \o Concat([i \in 1..Len(node.children) |->
                          FormatRawNode(node.children[i])])
             \o sEndOpen \o currentEnvName \o <<"}">>
        ELSE envBeginStr \o <<NL>>
             \o Concat([i \in 1..Len(node.children) |->
                          FormatNode(node.children[i], indentLevel)])
             \o <<NL>> \o indent \o sEndOpen \o currentEnvName \o <<"}">>

\* case "Environment" of formatNode
FormatEnvironment(node, indentLevel) ==
  LET indent == Indent(indentLevel)
      currentEnvName == Trim(OrElse(node.name, unknownEnv))
      envBeginStr ==
        indent \o sBeginOpen \o currentEnvName \o <<"}">>
        \o Concat([i \in 1..Len(node.environmentArguments) |->
             <<"{">> \o FormatRawNode(node.environmentArguments[i])
             \o <<"}">>])
  IN  IF currentEnvName \in mathEnvs
        THEN envBeginStr
             \o Concat([i \in 1..Len(node.children) |->
                          FormatRawNode(node.children[i])])
             \o sEndOpen \o currentEnvName \o <<"}">>
        ELSE envBeginStr \o <<NL>>
             \o Concat([i \in 1..Len(node.children) |->
                          FormatNode(node.children[i], indentLevel + 1)])
             \o <<NL>> \o indent \o sEndOpen \o currentEnvName \o <<"}">>

\* formatNode
FormatNode(node, indentLevel) ==
  IF node.type = "Document"
    THEN Concat([i \in 1..Len(node.children) |->
                   FormatNode(node.children[i], indentLevel)])
  ELSE IF node.type = "Text" THEN FormatText(node)
  ELSE IF node.type = "MathNode" THEN FormatMath(node, indentLevel)
  ELSE IF node.type = "Command" THEN FormatCommand(node)
  ELSE IF node.type = "Environment" THEN FormatEnvironment(node, indentLevel)
  ELSE <<>>

\* formatAST
FormatAST(tree) == FormatNode(tree, 0)

----------------------------------------------------------------------------
(* Editor integration: checkBalance and the formatting provider            *)

\* openChar === '$' && closeChar === '$': one symbol opens and closes
IsToggle(openChar, closeChar) == openChar = "$" /\ closeChar = "$"

\* isEscaped with every preceding backslash taken as escaping
IsEscaped_AnyBackslash(t, i) == i > 0 /\ At(t, i - 1) = BS

\* isEscaped for the character at offset i of t
IsEscaped(t, i) ==
  /\ i > 0
  /\ At(t, i - 1) = BS
  /\ (i < 2 \/ At(t, i - 2) # BS)

\* balance after the character at offset i has been looked at
BalanceAfter(t, openChar, closeChar, i, balance) ==
  IF IsEscaped(t, i) THEN balance
  ELSE IF At(t, i) = openChar THEN balance + 1
  ELSE IF At(t, i) = closeChar /\ ~IsToggle(openChar, closeChar)
    THEN balance - 1
  ELSE balance

\* { isBalanced: true, message: '' }
Balanced == [isBalanced |-> TRUE, message |-> ""]

\* the result returned from inside the loop
ExtraClosing(closeChar) ==
  [isBalanced |-> FALSE,
   message |-> "Detected extra closing symbol '" \o closeChar \o "'."]

\* the result returned after the loop when the balance is wrong
Unbalanced(symbols) ==
  [isBalanced |-> FALSE,
   message |-> "Detected unbalanced '" \o symbols \o "' symbols."]

\* the test inside the loop with a negative balance let through
GoesNegative_Never(balance, openChar, closeChar) == FALSE

\* the test inside the loop: a closing symbol came before its opening one
GoesNegative(balance, openChar, closeChar) ==
  balance < 0 /\ ~IsToggle(openChar, closeChar)

\* the final check with the '$' balance held to zero like the others
FinalCheck_Zero(balance, openChar, closeChar) ==
  IF balance # 0
    THEN Unbalanced(IF IsToggle(openChar, closeChar) THEN openChar
                    ELSE openChar \o closeChar)
    ELSE Balanced

\* the final check: even for '$', zero for the others
FinalCheck(balance, openChar, closeChar) ==
  IF IsToggle(openChar, closeChar)
    THEN IF balance % 2 # 0 THEN Unbalanced(openChar) ELSE Balanced
  ELSE IF balance # 0 THEN Unbalanced(openChar \o closeChar)
  ELSE Balanced

\* the loop of checkBalance between two turns: the balance, and whether the
\* loop has returned from inside
LoopState(balance, returned) == [balance |-> balance, returned |-> returned]

\* the end of one turn of the loop, balance being the updated balance
CheckBalanceTurn(balance, openChar, closeChar) ==
  LoopState(balance, GoesNegative(balance, openChar, closeChar))

RECURSIVE CheckBalanceLoop(_, _, _, _, _, _)
\* the turns of the for loop at offsets lo .. hi - 1 in order, the first
\* half of them and then the second; after a return no turn is taken
CheckBalanceLoop(t, openChar, closeChar, lo, hi, loop) ==
  IF loop.returned \/ hi <= lo THEN loop
  ELSE IF hi = lo + 1
    THEN CheckBalanceTurn(
           BalanceAfter(t, openChar, closeChar, lo, loop.balance),
           openChar, closeChar)
  ELSE CheckBalanceLoop(t, openChar, closeChar, (lo + hi) \div 2, hi,
         CheckBalanceLoop(t, openChar, closeChar, lo, (lo + hi) \div 2, loop))

\* what checkBalance returns: from inside the loop, or the final check
CheckBalanceReturn(loop, openChar, closeChar) ==
  IF loop.returned
    THEN ExtraClosing(closeChar)
    ELSE FinalCheck(loop.balance, openChar, closeChar)

\* checkBalance
CheckBalance(t, openChar, closeChar) ==
  CheckBalanceReturn(
    CheckBalanceLoop(t, openChar, closeChar, 0, Len(t), LoopState(0, FALSE)),
    openChar, closeChar)

\* the pairs of symbols the provider checks
DelimiterPairs == { <<"$", "$">>, <<"{", "}">>, <<"[", "]">> }

\* one call of checkBalance with what it returned
Checked(t, openChar, closeChar) ==
  [openChar |-> openChar, closeChar |-> closeChar,
   result |-> CheckBalance(t, openChar, closeChar)]

\* const checks = [ ... ]
BalanceChecks(formattedText) ==
  << Checked(formattedText, "$", "$"),
     Checked(formattedText, "{", "}"),
     Checked(formattedText, "[", "]") >>

\* vscode.TextEdit.replace(fullRange, formattedText); a position is an
\* offset into the document
TextEdit(originalText, formattedText) ==
  [start |-> 0, end |-> Len(originalText), newText |-> formattedText]

\* the provider with the edit held back when a check is not balanced
ReturnedEdits_Blocking(originalText, formattedText, results) ==
  IF \A i \in 1..Len(results) : results[i].result.isBalanced
    THEN << TextEdit(originalText, formattedText) >>
    ELSE << >>

\* what the provider returns when nothing was thrown
ReturnedEdits(originalText, formattedText, results) ==
  << TextEdit(originalText, formattedText) >>

\* the document after the editor applied one edit
Replaced(t, edit) ==
  SubSeq(t, 1, edit.start) \o edit.newText \o SubSeq(t, edit.end + 1, Len(t))

----------------------------------------------------------------------------
(* The documents the model formats: every concatenation of at most n       *)
(* fragments of a vocabulary.                                              *)

InputsOver(frags, n) ==
  { Concat(f) : f \in UNION { [1..k -> frags] : k \in 0..n } }

RECURSIVE StringsOver(_, _)
\* every string of at most n characters of an alphabet
StringsOver(chars, n) ==
  IF n = 0 THEN { <<>> }
  ELSE LET shorter == StringsOver(chars, n - 1)
       IN  shorter \cup { Append(s, c) : s \in shorter, c \in chars }

\* the number of times a formatted document is formatted again
MaxPass == 1

\* the number of fragments of a document about blocks
MaxBlockFrags == 4

\* the number of fragments of a document about commands
MaxCmdFrags == 4

\* the number of characters after the "%" of a comment line
MaxCommentLen == 3

\* the number of characters of a text run given to the escaper
MaxRunLen == 3

sA == <<"a">>
sEquation == <<"e","q","u","a","t","i","o","n">>
sTextbf == <<"t","e","x","t","b","f">>

fBeginA == sBeginOpen \o sA \o <<"}">>
fEndA == sEndOpen \o sA \o <<"}">>
fEndB == sEndOpen \o <<"b","}">>
fBeginEq == sBeginOpen \o sEquation \o <<"}">>
fEndEq == sEndOpen \o sEquation \o <<"}">>
fTextbf == <<BS>> \o sTextbf
fInlineMath == <<"$","x","$">>

BlockFrags ==
  { fBeginA, fEndA, fEndB, fBeginEq, fEndEq, <<"{">>, <<"}">>, <<"x","_">>,
    <<"$">>, fInlineMath }

CmdFrags ==
  { fTextbf, <<"{">>, <<"}">>, <<"[">>, <<"]">>, <<"x","_">>, fBeginA, fEndA }

\* one comment line: horizontal whitespace, "%", characters but no newline
CommentLines ==
  { ws \o <<"%">> \o rest :
      ws \in { <<>>, <<" ">>, <<TAB>>, <<" ", " ">> },
      rest \in StringsOver({"n", "_", "{", "$", BS, " "}, MaxCommentLen) }

\* the contents of text runs
RunTexts ==
  StringsOver({"a", "%", BS, NL, " ", "~",
               "#", "$", "&", "_", "^", "{", "}"}, MaxRunLen)

----------------------------------------------------------------------------
(* State machine: a document is parsed, the tree is formatted, and the     *)
(* editor replaces the document by the formatted text, after which it may  *)
(* be formatted again.                                                     *)

InitWith(inputs) ==
  /\ text \in inputs
  /\ phase = "input"
  /\ ast = NoTree
  /\ error = NoError
  /\ log = <<>>
  /\ output = <<>>
  /\ pass = 0
  /\ checks = <<>>
  /\ edits = <<>>
  /\ lexer = NewLexer

\* the state after parseLatex(text) returned or threw r
Parsing(r) ==
  /\ phase' = IF r.ok THEN "parsed" ELSE "failed"
  /\ ast' = r.ast
  /\ error' = r.error
  /\ log' = r.log

\* parseLatex(text); when it throws the provider returns no edit
Parse ==
  /\ phase = "input"
  /\ Parsing(ParseLatex(text))
  /\ edits' = <<>>
  /\ UNCHANGED <<text, output, pass, checks, lexer>>

\* the state after formatAST(ast) returned formattedText: the three
\* checks are made and the edit is returned
Formatting(formattedText, results) ==
  /\ output' = formattedText
  /\ checks' = results
  /\ edits' = ReturnedEdits(text, formattedText, results)

\* the state after formatAST(ast) returned formattedText
Formatted(formattedText) ==
  Formatting(formattedText, BalanceChecks(formattedText))

\* formatAST(ast), the checks and the return
Format ==
  /\ phase = "parsed"
  /\ Formatted(FormatAST(ast))
  /\ phase' = "formatted"
  /\ UNCHANGED <<text, ast, error, log, pass, lexer>>

\* the edit returned on success replaces the whole document by the
\* formatted text; the document can then be formatted again
ApplyEdit ==
  /\ phase = "formatted"
  /\ pass < MaxPass
  /\ edits # <<>>
  /\ text' = Replaced(text, edits[1])
  /\ phase' = "input"
  /\ ast' = NoTree
  /\ error' = NoError
  /\ log' = <<>>
  /\ output' = <<>>
  /\ pass' = pass + 1
  /\ checks' = <<>>
  /\ edits' = <<>>
  /\ UNCHANGED lexer

Next == Parse \/ Format \/ ApplyEdit

\* documents about blocks
Init == InitWith(InputsOver(BlockFrags, MaxBlockFrags))

Spec == Init /\ [][Next]_vars

\* documents about commands
InitCmd == InitWith(InputsOver(CmdFrags, MaxCmdFrags))

SpecCmd == InitCmd /\ [][Next]_vars

\* documents that are one comment line
InitComment == InitWith(CommentLines)

SpecComment == InitComment /\ [][Next]_vars

(* The formatter applied to one text run: the tree is a single Text node,  *)
(* escaped or not, and formatNode renders it in normal mode.               *)

InitRun ==
  /\ text \in RunTexts
  /\ phase = "run"
  /\ ast \in { Text(text, FALSE), Text(text, TRUE) }
  /\ error = NoError
  /\ log = <<>>
  /\ output = <<>>
  /\ pass = 0
  /\ checks = <<>>
  /\ edits = <<>>
  /\ lexer = NewLexer

\* formatNode(node, 0) for a Text node
FormatRun ==
  /\ phase = "run"
  /\ output' = FormatNode(ast, 0)
  /\ phase' = "rendered"
  /\ UNCHANGED <<text, ast, error, log, pass, checks, edits, lexer>>

NextRun == FormatRun

SpecRun == InitRun /\ [][NextRun]_vars

(* checkBalance applied to one text and one pair of symbols                *)

\* the number of characters of a text given to checkBalance
MaxBalanceLen == 4

\* the texts given to checkBalance
BalanceTexts ==
  StringsOver({"a", BS, "$", "{", "}", "[", "]"}, MaxBalanceLen)
  \cup { <<"a", "}", "b">>, <<"$", "a", "$", "b", "$">> }

InitBalance ==
  /\ text \in BalanceTexts
  /\ phase = "balance"
  /\ ast = NoTree
  /\ error = NoError
  /\ log = <<>>
  /\ output = <<>>
  /\ pass = 0
  /\ checks = <<>>
  /\ edits = <<>>
  /\ lexer = NewLexer

\* checkBalance(text, openChar, closeChar)
CheckBalanceCall ==
  /\ phase = "balance"
  /\ \E pair \in DelimiterPairs :
       checks' = << Checked(text, pair[1], pair[2]) >>
  /\ phase' = "checked"
  /\ UNCHANGED <<text, ast, error, log, output, pass, edits, lexer>>

NextBalance == CheckBalanceCall

SpecBalance == InitBalance /\ [][NextBalance]_vars

(* Documents about the arguments of commands: one command, raw-argument or *)
(* not, with bodies in which commands and blocks nest.                     *)

\* the depth to which commands and blocks nest inside an argument
MaxArgDepth == 1

sLabel == <<"l","a","b","e","l">>
sEmph == <<"e","m","p","h">>

\* commands whose name is not a raw-argument command name
OtherNames == { sTextbf, sEmph }

\* text in which characters the escaper escapes occur
PlainTexts == { <<"x","_">>, <<"a","#","b">>, <<"_","&">> }

\* \name{body}
CommandWith(name, body) == <<BS>> \o name \o <<"{">> \o body \o <<"}">>

RECURSIVE ArgBodies(_)
\* what an argument holds: text, or a command or a block around a body
ArgBodies(d) ==
  IF d = 0 THEN PlainTexts
  ELSE LET inner == ArgBodies(d - 1)
       IN  inner
           \cup { CommandWith(n, b) : n \in {sTextbf, sLabel}, b \in inner }
           \cup { fBeginA \o b \o fEndA : b \in inner }

\* the second required argument of the documents
fSecond == <<"{","x","_","}">>

\* \href{http://a_b}{click_me}
fHrefExample ==
  CommandWith(sHref, <<"h","t","t","p",":","/","/","a","_","b">>)
  \o <<"{","c","l","i","c","k","_","m","e","}">>

\* \name{body} and \name{body}{x_}
RequiredDocs(names) ==
  { CommandWith(n, b) \o s :
      n \in names, b \in ArgBodies(MaxArgDepth), s \in { <<>>, fSecond } }

\* \name[body]{x_}
OptionalDocs(names) ==
  { <<BS>> \o n \o <<"[">> \o b \o <<"]">> \o fSecond :
      n \in names, b \in ArgBodies(MaxArgDepth) }

\* \begin{a}{body}\end{a}
BlockArgDoc(b) == fBeginA \o <<"{">> \o b \o <<"}">> \o fEndA

ArgDocs ==
  RequiredDocs(rawArgumentCommands \cup OtherNames)
  \cup OptionalDocs(rawArgumentCommands \cup OtherNames)
  \cup { BlockArgDoc(b) : b \in ArgBodies(MaxArgDepth) }
  \cup { fHrefExample }

InitArgs == InitWith(ArgDocs)

SpecArgs == InitArgs /\ [][Next]_vars

(* Documents in which \end{b} closes nothing: no block named b is opened.  *)

\* the number of fragments of a document about a stray \end
MaxEndFrags == 4

EndFrags == { fTextbf, <<"{">>, <<"}">>, fBeginA, fEndB, <<"x","_">> }

InitEnd == InitWith(InputsOver(EndFrags, MaxEndFrags))

SpecEnd == InitEnd /\ [][Next]_vars

(* Documents in which backslashes stand before letters and before other    *)
(* characters, at top level and inside the argument of \label.             *)

\* the number of characters of a document about escape sequences
MaxEscLen == 4

\* a\_b
fEscExample == <<"a", BS, "_", "b">>

EscTexts ==
  StringsOver({"a", "_", BS, "}"}, MaxEscLen)
  \cup { CommandWith(sLabel, t) : t \in StringsOver({"a", "_", BS}, MaxEscLen) }
  \cup { fEscExample }

InitEsc == InitWith(EscTexts)

SpecEsc == InitEsc /\ [][Next]_vars

(* Documents in which a math block stands inside blocks a, some of which   *)
(* may be left open.                                                       *)

\* the number of fragments of a document about nested math blocks
MaxMathFrags == 4

MathFrags == { fBeginA, fEndA, fBeginEq, fEndEq, <<"x","_">> }

InitMath == InitWith(InputsOver(MathFrags, MaxMathFrags))

SpecMath == InitMath /\ [][Next]_vars

(* Documents that hold one math span: at top level, inside blocks a, in    *)
(* an argument of \label, of \textbf and of block a, and in an argument   *)
(* of \textbf inside block a.                                              *)

\* the number of characters between the dollars of a math span
MaxSpanLen == 2

\* the number of blocks a around a math span
MaxSpanDepth == 1

\* what stands between the dollars
SpanContents == StringsOver({"x", "_", " ", NL}, MaxSpanLen)

\* $content$ or $$content$$
SpanText(inline, content) ==
  IF inline THEN <<"$">> \o content \o <<"$">>
  ELSE <<"$","$">> \o content \o <<"$","$">>

\* the spans, as <<inline, content>>; "$" "$" with nothing between them
\* opens a display span, so an inline span has content
SpanKinds ==
  { <<TRUE, c>> : c \in SpanContents \ { <<>> } }
  \cup { <<FALSE, c>> : c \in SpanContents }

Spans == { SpanText(k[1], k[2]) : k \in SpanKinds }

RECURSIVE InBlocks(_, _)
\* s inside d blocks a
InBlocks(d, s) ==
  IF d = 0 THEN s ELSE fBeginA \o InBlocks(d - 1, s) \o fEndA

\* the document in which s stands in the place named by where
SpanDoc(where, d, s) ==
  IF where = "blocks" THEN InBlocks(d, s)
  ELSE IF where = "label" THEN InBlocks(d, CommandWith(sLabel, s))
  ELSE IF where = "textbf" THEN InBlocks(d, CommandWith(sTextbf, s))
  ELSE InBlocks(d, fBeginA \o <<"{">> \o s \o <<"}">> \o fEndA)

SpanPlaces == { "blocks", "label", "textbf", "blockarg" }

SpanDocs ==
  { SpanDoc(w, d, s) : w \in SpanPlaces, d \in 0..MaxSpanDepth, s \in Spans }

InitSpan == InitWith(SpanDocs)

SpecSpan == InitSpan /\ [][Next]_vars

(* Documents in which blocks a, with and without an argument group, and    *)
(* \textbf nest.                                                           *)

\* the depth to which blocks and \textbf nest
MaxLayoutDepth == 3

\* the argument group of the blocks that have one
fGroup == <<"{","x","_","}">>

RECURSIVE NestDocs(_)
\* nothing, text, or a block or \textbf around a document nested less
NestDocs(n) ==
  IF n = 0 THEN { <<>>, <<"x","_">> }
  ELSE LET inner == NestDocs(n - 1)
       IN  inner
           \cup { fBeginA \o b \o fEndA : b \in inner }
           \cup { fBeginA \o fGroup \o b \o fEndA : b \in inner }
           \cup { CommandWith(sTextbf, b) : b \in inner }

InitLayout == InitWith(NestDocs(MaxLayoutDepth))

SpecLayout == InitLayout /\ [][Next]_vars

(* Documents \begin{A}x_\end{B} in which the names A and B hold blanks.    *)

\* the number of characters of a name of a and blanks
MaxNameLen == 3

sSplit == <<"s","p","l","i","t">>

\* names of a and blanks, and the math name split with blanks around it
BlockNames ==
  StringsOver({"a", " "}, MaxNameLen)
  \cup { l \o sSplit \o r : l, r \in { <<>>, <<" ">> } }

\* \begin{A}x_\end{B}
NameDoc(A, B) ==
  sBeginOpen \o A \o <<"}", "x", "_">> \o sEndOpen \o B \o <<"}">>

InitNames == InitWith({ NameDoc(A, B) : A, B \in BlockNames })

SpecNames == InitNames /\ [][Next]_vars

(* The lexer driven call by call, as the parser drives it: the constructor *)
(* and eat call getNextToken on it, and the block loops make a lookahead   *)
(* when the current token is \end.                                         *)

\* the number of characters of a text given to the lexer
MaxLexLen == 3

\* the number of calls made after the call that returned EOF
MaxCallsAfterEOF == 2

\* the command token \end as it stands in a text
fEnd == <<BS>> \o sEnd

\* texts over the characters the lexer tells apart, and \end before what a
\* lookahead reads
LexTexts ==
  StringsOver({"a", BS, "$", "{", "}", NL, "%", " "}, MaxLexLen)
  \cup { fEnd \o s : s \in StringsOver({"{", "a", "}", " "}, MaxLexLen) }

InitLex ==
  /\ text \in LexTexts
  /\ phase = "lexing"
  /\ ast = NoTree
  /\ error = NoError
  /\ log = <<>>
  /\ output = <<>>
  /\ pass = 0
  /\ checks = <<>>
  /\ edits = <<>>
  /\ lexer = NewLexer

\* this.currentToken = this.lexer.getNextToken()
NextTokenCall ==
  /\ lexer.calls < Len(text) + 1 + MaxCallsAfterEOF
  /\ lexer' = LexerAfter(lexer, GetNextToken(text, lexer.pos))
  /\ phase' = "lexing"
  /\ UNCHANGED <<text, ast, error, log, output, pass, checks, edits>>

\* the lookahead of the block loops, made on a lexer of its own over
\* text.substring(lexer.pos), for an open block named a or b
LookaheadCall ==
  /\ phase = "lexing"
  /\ lexer.currentToken.type = TOKEN_COMMAND
  /\ lexer.currentToken.value = sEnd
  /\ \E trimmedEnvName \in { <<"a">>, <<"b">> } :
       phase' = IF LookaheadMatches(text, lexer.pos, trimmedEnvName)
                  THEN "matched" ELSE "unmatched"
  /\ lexer' = [lexer EXCEPT !.lookaheads = @ + 1]
  /\ UNCHANGED <<text, ast, error, log, output, pass, checks, edits>>

NextLex == NextTokenCall \/ LookaheadCall

SpecLex == InitLex /\ [][NextLex]_vars

(* Documents that are \textbf with one argument group closed by the last   *)
(* character, the group holding braces of its own.                        *)

\* the number of characters between the first "{" and the last "}"
MaxExtentLen == 5

ExtentDocs ==
  { fTextbf \o <<"{">> \o b \o <<"}">> :
      b \in StringsOver({"a", "{", "}"}, MaxExtentLen) }

InitExtent == InitWith(ExtentDocs)

SpecExtent == InitExtent /\ [][Next]_vars

(* Documents in which a block stands where the formatter renders raw: in   *)
(* the argument of a raw-argument command, or in the argument group of a   *)
(* block.                                                                  *)

\* the number of argument groups of the block rendered raw
MaxRawGroups == 2

RECURSIVE Groups(_)
\* at most n argument groups {x_}
Groups(n) ==
  IF n = 0 THEN { <<>> }
  ELSE Groups(n - 1) \cup { fGroup \o g : g \in Groups(n - 1) }

\* \begin{a}, argument groups, nothing or x_, \end{a}
RawBlocks ==
  { fBeginA \o g \o b \o fEndA :
      g \in Groups(MaxRawGroups), b \in { <<>>, <<"x","_">> } }

RawBlockDocs ==
  { CommandWith(n, b) : n \in rawArgumentCommands, b \in RawBlocks }
  \cup { BlockArgDoc(b) : b \in RawBlocks }

InitRawBlock == InitWith(RawBlockDocs)

SpecRawBlock == InitRawBlock /\ [][Next]_vars

(* Documents of blocks a and b, closed or left open at the end of the      *)
(* input, inside one another, inside argument groups and inside \ref.      *)

\* the depth to which blocks, argument groups and \ref are nested
MaxCloseDepth == 3

sRef == <<"r","e","f">>
fBeginB == sBeginOpen \o <<"b","}">>

\* a block and the \end that closes it
BlockPairs == { <<fBeginA, fEndA>>, <<fBeginB, fEndB>> }

RECURSIVE CloseDocs(_)
\* nothing, text, or around a document nested less: a block, a block that
\* holds it in an argument group, a block left open, \ref
CloseDocs(n) ==
  IF n = 0 THEN { <<>>, <<"x","_">> }
  ELSE LET inner == CloseDocs(n - 1)
       IN  inner
           \cup { p[1] \o b \o p[2] : p \in BlockPairs, b \in inner }
           \cup { p[1] \o <<"{">> \o b \o <<"}">> \o p[2] :
                    p \in BlockPairs, b \in inner }
           \cup { p[1] \o b : p \in BlockPairs, b \in inner }
           \cup { CommandWith(sRef, b) : b \in inner }

InitClose == InitWith(CloseDocs(MaxCloseDepth))

SpecClose == InitClose /\ [][Next]_vars

(* The loops of the parser taken one turn at a time.  The three loops      *)
(* (Parser.parse, an argument group, the children of a block) have the     *)
(* same body: parseElement, then the force-consume.  A turn starts where   *)
(* the parser stands: after the constructor for the loop of Parser.parse,  *)
(* and after further tokens for a loop started inside an element.          *)

\* the number of fragments of a document parsed turn by turn
MaxTurnFrags == 2

TurnFrags ==
  { fTextbf, <<"{">>, <<"}">>, fBeginA, fEndA, <<"x","_">>, <<"$">> }

InitTurn ==
  /\ text \in InputsOver(TurnFrags, MaxTurnFrags)
  /\ phase = "new"
  /\ ast = Document(<<>>)
  /\ error = NoError
  /\ log = <<>>
  /\ output = <<>>
  /\ pass = 0
  /\ checks = <<>>
  /\ edits = <<>>
  /\ lexer = NewLexer

\* new Parser(lexer)
Construct ==
  /\ phase = "new"
  /\ lexer' = LexerAfter(lexer, GetNextToken(text, lexer.pos))
  /\ phase' = "seeking"
  /\ UNCHANGED <<text, ast, error, log, output, pass, checks, edits>>

\* a token read on the way to a loop inside an element: the parser comes
\* to an inner loop after the constructor or after turns of an outer loop
SkipToken ==
  /\ phase \in {"seeking", "looping"}
  /\ lexer.currentToken.type # TOKEN_EOF
  /\ lexer' = LexerAfter(lexer, GetNextToken(text, lexer.pos))
  /\ UNCHANGED <<text, phase, ast, error, log, output, pass, checks, edits>>

\* the parser state of the turn about to be taken
ParserAt(lx, warnings) ==
  [pos |-> lx.pos, currentToken |-> lx.currentToken,
   err |-> NoError, log |-> warnings]

\* the end of a turn, r being what parseElement returned and q the parser
\* state after the force-consume
TurnEnd(r, q) ==
  /\ lexer' = [lexer EXCEPT !.pos = q.pos, !.currentToken = q.currentToken]
  /\ ast' = Document(ast.children \o r.node)
  /\ error' = q.err
  /\ log' = q.log
  /\ phase' = IF q.err = NoError THEN "looping" ELSE "threw"

\* one turn of a loop: parseElement, the node kept, the force-consume
LoopTurn ==
  /\ phase \in {"seeking", "looping"}
  /\ lexer.currentToken.type # TOKEN_EOF
  /\ \E p \in {ParserAt(lexer, log)} :
       \E r \in {ParseElement(text, p)} :
         \E q \in {ForceConsume(text, p, r)} : TurnEnd(r, q)
  /\ UNCHANGED <<text, output, pass, checks, edits>>

\* while (this.currentToken.type !== TOKEN_EOF) found false
LoopExit ==
  /\ phase \in {"seeking", "looping"}
  /\ lexer.currentToken.type = TOKEN_EOF
  /\ phase' = "stopped"
  /\ UNCHANGED <<text, ast, error, log, output, pass, checks, edits, lexer>>

NextTurn == Construct \/ SkipToken \/ LoopExit \/ LoopTurn

\* a loop of the parser goes on as long as it can
SpecTurn == InitTurn /\ [][NextTurn]_vars /\ WF_vars(NextTurn)

----------------------------------------------------------------------------
(* Properties                                                              *)

HasPrefix(t, pre) == Len(t) >= Len(pre) /\ SubSeq(t, 1, Len(pre)) = pre

HasSuffix(t, suf) ==
  Len(t) >= Len(suf) /\ SubSeq(t, Len(t) - Len(suf) + 1, Len(t)) = suf

\* t without its first n and its last m characters
Middle(t, n, m) == SubSeq(t, n + 1, Len(t) - m)

Contains(t, chars) == \E i \in 1..Len(t) : t[i] \in chars

HasWarn(kind) == \E i \in 1..Len(log) : log[i].kind = kind

\* the document has been through parseLatex
WasParsed == phase \in {"parsed", "failed", "formatted"}

\* C1: formatting is idempotent: a document that is the output of
\* format(parse(.)) is parsed without error and formatted to itself.
C1_Idempotent ==
  pass >= 1 => /\ phase # "failed"
               /\ phase = "formatted" => output = text

\* a block opened with \begin{a} whose content is plain text and that is
\* followed by \end{b}
MismatchedBlock(t) ==
  /\ HasPrefix(t, fBeginA)
  /\ HasSuffix(t, fEndB)
  /\ Len(t) >= Len(fBeginA) + Len(fEndB)
  /\ ~Contains(Middle(t, Len(fBeginA), Len(fEndB)), {BS, "{", "}", "$"})

\* C2: a block opened with \begin{a} and followed by \end{b} makes parse
\* raise an error and return no tree.
C2_MismatchRaises ==
  (pass = 0 /\ WasParsed /\ MismatchedBlock(text))
    => (phase = "failed" /\ ast = NoTree)

\* the document is the command \textbf, then opener, then a body in which
\* no backslash and none of the characters of closers occurs
UnclosedAfter(t, head, closers) ==
  /\ HasPrefix(t, head)
  /\ ~Contains(Middle(t, Len(head), 0), {BS} \cup closers)

\* a closed argument group whose content is plain text
ClosedGroups ==
  { <<>>, <<"[","x","_","]">>, <<"{","x","_","}">>, <<"[","]">>, <<"{","}">>,
    <<"[","]","{","}">>, <<"{","}","{","}">> }

UnclosedOptional(t) ==
  UnclosedAfter(t, fTextbf \o <<"[">>, {"]"})

UnclosedRequired(t) ==
  \E g \in ClosedGroups : UnclosedAfter(t, fTextbf \o g \o <<"{">>, {"}"})

C4_MathEOFTolerated ==
  (WasParsed /\ HasWarn("EOF in math env")) => phase # "failed"

\* pre occurs in t as a substring
ContainsSub(t, sub) ==
  \E i \in 0..(Len(t) - Len(sub)) : SubSeq(t, i + 1, i + Len(sub)) = sub

UnclosedCommandArgument ==
  {"Unclosed optional argument for command",
   "Unclosed required argument for command"}

\* C5 as claimed: when the input ends inside a non-math block and no
\* command is in the document (so the block is in no command argument
\* group), parse raises no error.
C5_NonMathEOFTolerated ==
  (WasParsed /\ HasWarn("EOF in non-math env") /\ ~ContainsSub(text, fTextbf))
    => phase # "failed"

\* C5 as amended: when the input ends inside a non-math block, parse raises
\* an error only if the block is in an unclosed argument group of a command
\* or of a block, the error being that group's; with no command and no
\* block argument group ("}{") in the document no error is raised; and when
\* the document is the block alone, the Block's children are the elements
\* of the text after \begin{a}.
C5_NonMathEOFToleratedOutsideGroups ==
  (WasParsed /\ HasWarn("EOF in non-math env")) =>
    /\ phase = "failed" =>
         error.kind \in UnclosedCommandArgument
                        \cup {"Unclosed argument for environment"}
    /\ (~ContainsSub(text, fTextbf) /\ ~ContainsSub(text, <<"}","{">>))
         => phase # "failed"
    /\ ( /\ phase # "failed"
         /\ HasPrefix(text, fBeginA)
         /\ Len(ast.children) = 1
         /\ ast.children[1].type = "Environment"
         /\ Len(text) > Len(fBeginA) => text[Len(fBeginA) + 1] \notin {"{", "%"} )
         => LET body == ParseLatex(Middle(text, Len(fBeginA), 0))
            IN  /\ body.ok
                /\ ast = Document(<<Environment(sA, body.ast.children, <<>>)>>)

\* C5 witness: \begin{a}x_ has been parsed
C5_Witness ==
  /\ phase = "parsed"
  /\ text = fBeginA \o <<"x","_">>
  /\ HasWarn("EOF in non-math env")

\* the document is \begin{equation}, a body without backslash that does
\* not start an argument group, and \end{equation}
MathBlockAlone(t) ==
  /\ HasPrefix(t, fBeginEq)
  /\ HasSuffix(t, fEndEq)
  /\ Len(t) >= Len(fBeginEq) + Len(fEndEq)
  /\ LET body == Middle(t, Len(fBeginEq), Len(fEndEq))
     IN  ~Contains(body, {BS}) /\ (body # <<>> => body[1] # "{")

\* C6: a math block closed by its \end has exactly one child, an escaped
\* Text whose content is the source text between \begin{equation} and
\* \end{equation}.
C6_MathContentVerbatim ==
  (pass = 0 /\ phase \in {"parsed", "formatted"} /\ MathBlockAlone(text))
    => ast = Document(<<Environment(sEquation,
                 <<Text(Middle(text, Len(fBeginEq), Len(fEndEq)), TRUE)>>,
                 <<>>)>>)

RECURSIVE LeadingBlocks(_)
\* the number of \begin{a} the document starts with
LeadingBlocks(t) ==
  IF HasPrefix(t, fBeginA)
    THEN 1 + LeadingBlocks(Middle(t, Len(fBeginA), 0))
    ELSE 0

RECURSIVE TrailingEnds(_)
\* the number of \end{a} the document ends with
TrailingEnds(t) ==
  IF HasSuffix(t, fEndA)
    THEN 1 + TrailingEnds(Middle(t, 0, Len(fEndA)))
    ELSE 0

\* the part of the document inside its leading \begin{a} and trailing \end{a}
InnerText(t) ==
  Middle(t, LeadingBlocks(t) * Len(fBeginA), TrailingEnds(t) * Len(fEndA))

\* the document is a math block without backslash or "$" in it, inside d >= 0
\* blocks a of which the last ones may be left open
NestedMathBlock(t) ==
  /\ TrailingEnds(t) <= LeadingBlocks(t)
  /\ LeadingBlocks(t) * Len(fBeginA) + TrailingEnds(t) * Len(fEndA) <= Len(t)
  /\ LET m == InnerText(t)
     IN  /\ HasPrefix(m, fBeginEq) /\ HasSuffix(m, fEndEq)
         /\ Len(m) >= Len(fBeginEq) + Len(fEndEq)
         /\ ~Contains(Middle(m, Len(fBeginEq), Len(fEndEq)), {BS, "$"})

RECURSIVE NestedLayout(_, _, _, _)
\* the math block m inside d blocks a, laid out from indent level lvl, the
\* math block itself being indented or not
NestedLayout(m, d, lvl, indented) ==
  IF d = 0 THEN (IF indented THEN Indent(lvl) ELSE <<>>) \o m
  ELSE Indent(lvl) \o fBeginA \o <<NL>>
       \o NestedLayout(m, d - 1, lvl + 1, indented)
       \o <<NL>> \o Indent(lvl) \o fEndA

C8_CommentPreserved ==
  (pass = 0 /\ WasParsed) =>
    /\ phase # "failed"
    /\ ast = Document(<<Text(text, FALSE)>>)
    /\ phase = "formatted" => output = text

\* the line boundaries of s: before its first character, its newlines,
\* after its last character
LineBounds(s) == {0, Len(s) + 1} \cup {i \in 1..Len(s) : s[i] = NL}

\* the k-th boundary of s, counted from 0
Bound(s, k) ==
  CHOOSE b \in LineBounds(s) :
    Cardinality({c \in LineBounds(s) : c < b}) = k

NumLines(s) == Cardinality(LineBounds(s)) - 1

\* the k-th "\n"-separated line of s, counted from 1
Line(s, k) == SubSeq(s, Bound(s, k - 1) + 1, Bound(s, k) - 1)

\* the number of special characters among the first i - 1 characters of c
SpecialsBefore(c, i) ==
  Cardinality({j \in 1..(i - 1) : c[j] \in {"#", "$", "&", "_", "^", "{", "}"}})

\* c with a backslash put before each of # $ & _ ^ { }
Escaped(c) ==
  [k \in 1..(Len(c) + SpecialsBefore(c, Len(c) + 1)) |->
     LET i == CHOOSE j \in 1..Len(c) :
                /\ j + SpecialsBefore(c, j) <= k
                /\ k <= j + SpecialsBefore(c, j + 1)
     IN  IF c[i] \in {"#", "$", "&", "_", "^", "{", "}"}
            /\ k = i + SpecialsBefore(c, i)
           THEN BS ELSE c[i]]

\* the first non-whitespace character of the line is "%"
IsCommentLine(l) ==
  \E i \in 1..Len(l) : l[i] = "%" /\ \A j \in 1..(i - 1) : l[j] \in WhiteSpace

\* the positions of the "%" not immediately preceded by a backslash
UnescapedPercents(l) ==
  {i \in 1..Len(l) : l[i] = "%" /\ (i = 1 \/ l[i - 1] # BS)}

\* what the comment-aware escaper is to return for one line
EscapedLine(l) ==
  IF IsCommentLine(l) THEN l
  ELSE IF UnescapedPercents(l) # {}
    THEN LET i == CHOOSE j \in UnescapedPercents(l) :
                    \A k \in UnescapedPercents(l) : j <= k
         IN  Escaped(SubSeq(l, 1, i - 1)) \o SubSeq(l, i, Len(l))
    ELSE Escaped(l)

\* C9: a non-escaped text run is rendered line by line: a comment line
\* unchanged, a line with a "%" not preceded by a backslash escaped before
\* the first such "%" and verbatim from it on, any other line escaped whole.
C9_CommentAwareEscaper ==
  (phase = "rendered" /\ ~ast.escaped) =>
    /\ NumLines(output) = NumLines(text)
    /\ \A k \in 1..NumLines(text) : Line(output, k) = EscapedLine(Line(text, k))

\* C9 witness: a run with a comment line, and a line with code, an escaped
\* percent sign and a comment has been rendered
C9_Witness ==
  /\ phase = "rendered"
  /\ ~ast.escaped
  /\ \E k \in 1..NumLines(text) :
       /\ ~IsCommentLine(Line(text, k))
       /\ UnescapedPercents(Line(text, k)) # {}
       /\ Line(output, k) # Line(text, k)

\* C10: in a non-escaped run without comment, each of # $ & _ ^ { } gets a
\* backslash before it, every other character ("~" too) is kept as it is,
\* and no character is removed.
C10_EscapesSevenCharacters ==
  (phase = "rendered" /\ ~ast.escaped /\ ~Contains(text, {"%"})) =>
    /\ output = Escaped(text)
    /\ Len(output) = Len(text) + SpecialsBefore(text, Len(text) + 1)
    /\ \A i \in 1..Len(text) :
         /\ output[i + SpecialsBefore(text, i + 1)] = text[i]
         /\ text[i] \in SpecialChars
              => output[i + SpecialsBefore(text, i)] = BS

\* C10 witness: a_~ has been rendered as a\_~
C10_Witness ==
  /\ phase = "rendered"
  /\ ~ast.escaped
  /\ text = <<"a", "_", "~">>
  /\ output = <<"a", BS, "_", "~">>

\* s without its newline characters
Unbroken(s) == SelectSeq(s, LAMBDA c : c # NL)

\* every "_", "#" and "&" of o has a backslash before it
AllEscaped(o) ==
  \A i \in 1..Len(o) : o[i] \in {"_", "#", "&"} => (i > 1 /\ o[i - 1] = BS)

\* no raw-argument command occurs in t
NoRawName(t) ==
  \A n \in rawArgumentCommands : ~ContainsSub(t, <<BS>> \o n)

\* the documents that are one raw-argument command other than \href
RawDocs ==
  RequiredDocs(rawArgumentCommands \ {sHref})
  \cup OptionalDocs(rawArgumentCommands \ {sHref})

\* the documents that are one command that is not a raw-argument command
OtherDocs == RequiredDocs(OtherNames) \cup OptionalDocs(OtherNames)

\* a document \href{..}{x_} without its second required argument
HrefHead(t) ==
  IF t \in RequiredDocs({sHref}) /\ HasSuffix(t, fSecond)
    THEN SubSeq(t, 1, Len(t) - Len(fSecond))
    ELSE t

\* the arguments of a raw-argument command come out as they went in, but
\* for the newlines put around a nested block; \href is held to this up to
\* its second required argument
RawArgumentsKept ==
  /\ text \in RawDocs => Unbroken(output) = text
  /\ text \in RequiredDocs({sHref}) \cup OptionalDocs({sHref})
       => HasPrefix(Unbroken(output), HrefHead(text))

\* C11 as stated: the arguments of a raw-argument command gain no escaping
\* backslash at any depth, and the arguments of every other command are
\* rendered in normal mode, wherever that command stands (here also as the
\* argument of a block, with no raw-argument command around it).
C11_RawArgumentPreservation ==
  (pass = 0 /\ phase = "formatted") =>
    /\ RawArgumentsKept
    /\ (/\ NoRawName(text)
        /\ \/ text \in OtherDocs
           \/ \E b \in ArgBodies(MaxArgDepth) :
                HasPrefix(b, fTextbf) /\ text = BlockArgDoc(b))
       => AllEscaped(output)

\* C11 amended: the arguments of a raw-argument command gain no escaping
\* backslash at any depth, and the arguments of every other command are
\* rendered in normal mode when that command is itself rendered in normal
\* mode.
C11_RawArgumentPreservationInNormalMode ==
  (pass = 0 /\ phase = "formatted") =>
    /\ RawArgumentsKept
    /\ (NoRawName(text) /\ text \in OtherDocs) => AllEscaped(output)

\* C11 witness: \label{\textbf{x_}} has been formatted to itself
C11_Witness ==
  /\ pass = 0 /\ phase = "formatted"
  /\ text = CommandWith(sLabel, CommandWith(sTextbf, <<"x","_">>))
  /\ output = text

TheCheck == checks[1]

\* checkBalance has been called on text
WasChecked == phase = "checked"

\* the character at offset i of t has exactly one backslash before it: the
\* character before it is a backslash and the one before that is not
SkippedAt(t, i) ==
  /\ i >= 1
  /\ t[i] = BS
  /\ (i < 2 \/ t[i - 1] # BS)

\* the number of unescaped ch among the first k characters of t
Unescaped(t, k, ch) ==
  Cardinality({ i \in 1..k : t[i] = ch /\ ~SkippedAt(t, i - 1) })

NotBalancedWith(message) == [isBalanced |-> FALSE, message |-> message]

ExtraClosingMessage(closeChar) ==
  "Detected extra closing symbol '" \o closeChar \o "'."

UnbalancedMessage(symbols) ==
  "Detected unbalanced '" \o symbols \o "' symbols."

\* C13: in pair mode checkBalance returns the extra closing symbol message
\* when some prefix holds more unescaped closeChar than openChar, otherwise
\* the unbalanced message when the totals differ, otherwise balanced with
\* an empty message; "a}b" with { } gives the extra closing symbol message.
C13_PairMode ==
  (WasChecked /\ TheCheck.openChar # TheCheck.closeChar) =>
    LET o == TheCheck.openChar
        c == TheCheck.closeChar
        n == Len(text)
    IN  /\ TheCheck.result =
             IF \E k \in 1..n : Unescaped(text, k, c) > Unescaped(text, k, o)
               THEN NotBalancedWith(ExtraClosingMessage(c))
             ELSE IF Unescaped(text, n, o) # Unescaped(text, n, c)
               THEN NotBalancedWith(UnbalancedMessage(o \o c))
             ELSE [isBalanced |-> TRUE, message |-> ""]
        /\ (text = <<"a", "}", "b">> /\ o = "{")
             => TheCheck.result = NotBalancedWith(ExtraClosingMessage("}"))

\* C13 witness: checkBalance("a}b", "{", "}") has returned not balanced
C13_Witness ==
  /\ WasChecked
  /\ TheCheck.openChar = "{"
  /\ ~TheCheck.result.isBalanced
  /\ text = <<"a", "}", "b">>

\* C14: in toggle mode checkBalance returns balanced exactly when the
\* number of unescaped "$" is even, never the extra closing symbol
\* message, and the unbalanced '$' message when the number is odd.
C14_ToggleMode ==
  (WasChecked /\ TheCheck.openChar = "$" /\ TheCheck.closeChar = "$") =>
    /\ TheCheck.result.isBalanced <=> Unescaped(text, Len(text), "$") % 2 = 0
    /\ TheCheck.result.message # ExtraClosingMessage("$")
    /\ Unescaped(text, Len(text), "$") % 2 = 1
         => TheCheck.result = NotBalancedWith(UnbalancedMessage("$"))
    /\ TheCheck.result.isBalanced => TheCheck.result.message = ""

\* C14 witness: checkBalance("$a$b$", "$", "$") has returned not balanced
C14_Witness ==
  /\ WasChecked
  /\ TheCheck.openChar = "$"
  /\ text = <<"$", "a", "$", "b", "$">>
  /\ ~TheCheck.result.isBalanced

\* t with every skipped character that is openChar or closeChar replaced by
\* a character that is neither
Neutralized(t, openChar, closeChar) ==
  [i \in 1..Len(t) |->
     IF t[i] \in {openChar, closeChar} /\ SkippedAt(t, i - 1)
       THEN "a" ELSE t[i]]

\* the number of ch among the first k characters of t
Occurrences(t, k, ch) == Cardinality({ i \in 1..k : t[i] = ch })

\* the result for a text all of whose symbols count
PlainVerdict(t, openChar, closeChar) ==
  IF openChar = closeChar
    THEN IF Occurrences(t, Len(t), openChar) % 2 = 0
           THEN [isBalanced |-> TRUE, message |-> ""]
           ELSE NotBalancedWith(UnbalancedMessage(openChar))
  ELSE IF \E k \in 1..Len(t) :
            Occurrences(t, k, closeChar) > Occurrences(t, k, openChar)
    THEN NotBalancedWith(ExtraClosingMessage(closeChar))
  ELSE IF Occurrences(t, Len(t), openChar) # Occurrences(t, Len(t), closeChar)
    THEN NotBalancedWith(UnbalancedMessage(openChar \o closeChar))
  ELSE [isBalanced |-> TRUE, message |-> ""]

\* C15: checkBalance skips a character exactly when the character before
\* it is a backslash and the one before that is not: the result is the
\* result for the text with those symbols taken out and every other symbol,
\* one after two backslashes included, counted.
C15_EscapeRule ==
  WasChecked =>
    TheCheck.result =
      PlainVerdict(Neutralized(text, TheCheck.openChar, TheCheck.closeChar),
                   TheCheck.openChar, TheCheck.closeChar)

\* C15 witness: the "}" after two backslashes has been counted
C15_Witness ==
  /\ WasChecked
  /\ TheCheck.openChar = "{"
  /\ text = <<BS, BS, "}">>
  /\ TheCheck.result = NotBalancedWith(ExtraClosingMessage("}"))

\* C16: when parsing raises an error the provider returns no edit and there
\* is no formatted text; when it succeeds the provider returns exactly one
\* edit, which replaces the whole document by format(parse(text)), whatever
\* the three checkBalance results are.
C16_EditorOutcome ==
  /\ phase = "failed" => (edits = <<>> /\ output = <<>> /\ ast = NoTree)
  /\ phase = "formatted" =>
       /\ Len(checks) = 3
       /\ output = FormatAST(ast)
       /\ edits = << [start |-> 0, end |-> Len(text), newText |-> output] >>

\* C16 witness: a document has been formatted, one of the three checks is
\* not balanced, and the edit has been returned
C16_Witness ==
  /\ phase = "formatted"
  /\ \E i \in 1..Len(checks) : ~checks[i].result.isBalanced
  /\ Len(edits) = 1

RECURSIVE EndAsText(_)
\* t with every \end replaced by the plain text "."
EndAsText(t) ==
  IF t = <<>> THEN <<>>
  ELSE IF HasPrefix(t, fEnd)
    THEN <<".">> \o EndAsText(SubSeq(t, Len(fEnd) + 1, Len(t)))
  ELSE <<Head(t)>> \o EndAsText(Tail(t))

\* a text run in which nothing is left
IsEmptyRun(node) == node.type = "Text" /\ node.text = <<>>

RECURSIVE WithoutDots(_)
\* the tree without the character "." in its text runs, and without the
\* text runs in which nothing is left
WithoutDots(node) ==
  LET Each(nodes) == [i \in 1..Len(nodes) |-> WithoutDots(nodes[i])]
  IN  [node EXCEPT
         !.text = SelectSeq(node.text, LAMBDA c : c # "."),
         !.children =
           SelectSeq(Each(node.children), LAMBDA n : ~IsEmptyRun(n)),
         !.optionalArgument = Each(node.optionalArgument),
         !.requiredArguments = Each(node.requiredArguments),
         !.environmentArguments = Each(node.environmentArguments)]

\* what parseLatex gives for the text in which \end is plain text, that
\* text then taken out of the tree
ParsedWithoutEnd(r) ==
  [ast |-> IF r.ok THEN WithoutDots(r.ast) ELSE NoTree, error |-> r.error]

\* C17: a stray \end (at top level, inside a command argument, inside a
\* block of another name) is consumed, adds no node to the tree and raises
\* no error: the tree and the error, if any, are those of the document in
\* which each \end is a piece of text that leaves no trace.
C17_StrayEndIgnored ==
  (pass = 0 /\ WasParsed /\ ContainsSub(text, fEnd)) =>
    [ast |-> ast, error |-> error] = ParsedWithoutEnd(ParseLatex(EndAsText(text)))

\* C17 witness: \textbf{\end{b}} has been parsed
C17_Witness ==
  /\ pass = 0 /\ phase = "parsed"
  /\ text = fTextbf \o <<"{">> \o fEndB \o <<"}">>

\* the character at place i of t is a brace that belongs to no \begin{..}
\* or \end{..}: no letter stands before it
LooseBraceAt(t, i) ==
  t[i] \in {"{", "}"} /\ (i = 1 \/ ~IsLetter(t[i - 1]))

\* t without its loose braces
WithoutLooseBraces(t) ==
  LET kept == { i \in 1..Len(t) : ~LooseBraceAt(t, i) }
      Nth(k) == CHOOSE i \in kept : Cardinality({ j \in kept : j < i }) = k - 1
  IN  [k \in 1..Cardinality(kept) |-> t[Nth(k)]]

\* no brace of t opens an argument group of a block, and no "$" opens math
NoGroupNoMath(t) ==
  /\ ~ContainsSub(t, fBeginA \o <<"{">>)
  /\ ~ContainsSub(t, fBeginEq \o <<"{">>)
  /\ ~Contains(t, {"$"})

RECURSIVE BraceRuns(_)
\* the number of text runs of the tree that hold exactly one brace
BraceRuns(node) ==
  LET Sum(nodes) ==
        LET RECURSIVE Upto(_)
            Upto(k) == IF k = 0 THEN 0 ELSE Upto(k - 1) + BraceRuns(nodes[k])
        IN  Upto(Len(nodes))
  IN  (IF node.type = "Text" /\ node.text \in { <<"{">>, <<"}">> } THEN 1 ELSE 0)
      + Sum(node.children) + Sum(node.optionalArgument)
      + Sum(node.requiredArguments) + Sum(node.environmentArguments)

\* C18: a brace that is not the delimiter of a block name or of an argument
\* group never makes parse fail by its presence (a document that fails
\* fails without its loose braces too) and is never dropped: each one is a
\* text run of the tree holding that one character.
C18_UnmatchedDelimiter ==
  (pass = 0 /\ WasParsed /\ NoGroupNoMath(text)) =>
    /\ phase = "failed" => ~ParseLatex(WithoutLooseBraces(text)).ok
    /\ phase # "failed" =>
         BraceRuns(ast) >=
           Cardinality({ i \in 1..Len(text) : LooseBraceAt(text, i) })

\* C19: in normal mode a text run is emitted verbatim when its escaped flag
\* is true or when it is a lone "{" or "}", and goes through the
\* comment-aware escaper otherwise.
C19_TextRunRendering ==
  phase = "rendered" =>
    output = IF ast.escaped \/ Trim(ast.text) \in { <<"{">>, <<"}">> }
               THEN ast.text
               ELSE EscapeSpecialChars(ast.text)

\* the token an escape sequence at offset i of t is
EscapeToken(t, i) ==
  Lexed(Token(TOKEN_TEXT, <<BS, At(t, i + 1)>>, TRUE), i + 2)

\* a backslash stands at offset i of t and a character that is no letter
\* follows it
EscapeAt(t, i) ==
  /\ At(t, i) = BS
  /\ i + 1 < Len(t)
  /\ ~IsLetter(At(t, i + 1))

RECURSIVE EscapesKept(_)
\* t with a backslash put before each "_" and "}" that has none, a
\* backslash and the character after it being passed over together
EscapesKept(t) ==
  IF t = <<>> THEN <<>>
  ELSE IF Head(t) = BS
    THEN IF Len(t) = 1 THEN t
         ELSE <<BS, t[2]>> \o EscapesKept(SubSeq(t, 3, Len(t)))
  ELSE (IF Head(t) \in {"_", "}"} THEN <<BS, Head(t)>> ELSE <<Head(t)>>)
       \o EscapesKept(Tail(t))

\* C20: at a backslash followed by a character c that is no letter the
\* tokenizer gives one Text token of value backslash + c with escaped true,
\* no token of another kind has escaped true, and the formatter emits
\* those two characters as they are in normal mode and in raw mode (inside
\* \label{..}); a\_b is formatted to a\_b.
C20_EscapesNotReescaped ==
  /\ \A i \in 0..(Len(text) - 1) :
       /\ EscapeAt(text, i) => GetNextToken(text, i) = EscapeToken(text, i)
       /\ GetNextToken(text, i).tok.escaped
            => GetNextToken(text, i).tok.type = TOKEN_TEXT
  /\ (pass = 0 /\ phase = "formatted") =>
       /\ HasPrefix(text, <<BS>> \o sLabel) => output = text
       /\ ~HasPrefix(text, <<BS>> \o sLabel) => output = EscapesKept(text)
       /\ text = fEscExample => output = text

\* C20 witness: a\_b has been formatted, and \label{\_} in raw mode
C20_Witness ==
  /\ pass = 0 /\ phase = "formatted"
  /\ text = fEscExample
  /\ output = <<"a", BS, "_", "b">>

\* what the claim says a span is rendered as: $content$, or "$$", a newline,
\* the trimmed content, a newline and "$$"
SpanPlain(inline, content) ==
  IF inline THEN <<"$">> \o content \o <<"$">>
  ELSE <<"$","$",NL>> \o Trim(content) \o <<NL,"$","$">>

\* a display span with 2*d spaces before its content and before its
\* closing "$$"
SpanIndented(inline, content, d) ==
  IF inline THEN <<"$">> \o content \o <<"$">>
  ELSE <<"$","$",NL>> \o Indent(d) \o Trim(content)
       \o <<NL>> \o Indent(d) \o <<"$","$">>

\* the layout of SpanDoc(where, d, s), r being what the span is rendered as
SpanLayout(where, d, r) ==
  IF where = "blocks" THEN NestedLayout(r, d, 0, FALSE)
  ELSE IF where = "label"
    THEN NestedLayout(CommandWith(sLabel, r), d, 0, FALSE)
  ELSE IF where = "textbf"
    THEN NestedLayout(CommandWith(sTextbf, r), d, 0, FALSE)
  ELSE NestedLayout(fBeginA \o <<"{">> \o r \o <<"}", NL, NL>>
                    \o Indent(d) \o fEndA, d, 0, TRUE)

\* C21 as claimed: in every render mode and at every depth an inline span
\* is rendered as "$" content "$" and a display span as "$$", newline,
\* trimmed content, newline, "$$", with nothing else inserted.
C21_MathSpanPlain ==
  \A w \in SpanPlaces, d \in 0..MaxSpanDepth, k \in SpanKinds :
    (pass = 0 /\ phase = "formatted"
       /\ text = SpanDoc(w, d, SpanText(k[1], k[2])))
      => output = SpanLayout(w, d, SpanPlain(k[1], k[2]))

\* C21 as amended: an inline span is rendered as "$" content "$" in both
\* modes; a display span is rendered in raw mode, and in normal mode at
\* indent level 0 (top level and inside an argument of a command), as "$$",
\* newline, trimmed content, newline, "$$"; in normal mode at indent level
\* d > 0 (directly inside d blocks) 2*d spaces stand before the trimmed
\* content and before the closing "$$".
C21_MathSpanIndented ==
  \A w \in SpanPlaces, d \in 0..MaxSpanDepth, k \in SpanKinds :
    (pass = 0 /\ phase = "formatted"
       /\ text = SpanDoc(w, d, SpanText(k[1], k[2])))
      => output = SpanLayout(w, d,
                    IF w = "blocks" THEN SpanIndented(k[1], k[2], d)
                    ELSE SpanPlain(k[1], k[2]))

\* C21 witness: a display span with blanks around its content, directly
\* inside a block, has been formatted with the indent before its content
C21_Witness ==
  /\ phase = "formatted"
  /\ pass = 0
  /\ text = fBeginA \o <<"$","$"," ","x","$","$">> \o fEndA
  /\ output = fBeginA \o <<NL, "$","$",NL," "," ","x",NL," "," ","$","$",NL>>
              \o fEndA

\* a block a with the argument groups args, laid out as the claim says a
\* block at depth d is, inside being its children as rendered
BlockLayout(d, args, inside) ==
  Indent(d) \o fBeginA \o args \o <<NL>> \o inside
  \o <<NL>> \o Indent(d) \o fEndA

RECURSIVE LayoutCases(_, _, _)
\* the documents of NestDocs(n) as src, each with the text out in which
\* every block is laid out by BlockLayout at its depth, d being the depth
\* of the document itself; the depth of a block is the number of blocks
\* around it, counted from the root or, when fromArgument holds, from the
\* nearest argument of a command around it
LayoutCases(n, d, fromArgument) ==
  IF n = 0
    THEN { [src |-> <<>>, out |-> <<>>],
           [src |-> <<"x","_">>, out |-> <<"x",BS,"_">>] }
    ELSE LayoutCases(n - 1, d, fromArgument)
         \cup { [src |-> fBeginA \o c.src \o fEndA,
                 out |-> BlockLayout(d, <<>>, c.out)] :
                  c \in LayoutCases(n - 1, d + 1, fromArgument) }
         \cup { [src |-> fBeginA \o fGroup \o c.src \o fEndA,
                 out |-> BlockLayout(d, fGroup, c.out)] :
                  c \in LayoutCases(n - 1, d + 1, fromArgument) }
         \cup { [src |-> CommandWith(sTextbf, c.src),
                 out |-> CommandWith(sTextbf, c.out)] :
                  c \in LayoutCases(n - 1, IF fromArgument THEN 0 ELSE d,
                                    fromArgument) }

LayoutFromRoot == LayoutCases(MaxLayoutDepth, 0, FALSE)

LayoutFromArgument == LayoutCases(MaxLayoutDepth, 0, TRUE)

\* C22 as claimed: a block inside d blocks, d = 0 at the root, is rendered
\* as 2*d spaces, \begin{name}, its args raw and brace-wrapped, a newline,
\* its children rendered at depth d + 1, a newline, 2*d spaces, \end{name}.
C22_BlockLayoutFromRoot ==
  \A c \in LayoutFromRoot :
    (pass = 0 /\ phase = "formatted" /\ text = c.src) => output = c.out

\* C22 as amended: the same layout, d being the number of blocks around the
\* block inside the nearest argument of a command around it, or from the
\* root when it is in no argument.
C22_BlockLayoutFromArgument ==
  /\ \A c \in LayoutFromArgument :
       (pass = 0 /\ phase = "formatted" /\ text = c.src) => output = c.out
  /\ (pass = 0 /\ phase = "formatted")
       => \E c \in LayoutFromArgument : text = c.src

\* C22 witness: a block with an argument group inside a block has been
\* formatted
C22_Witness ==
  /\ phase = "formatted"
  /\ pass = 0
  /\ text = fBeginA \o fBeginA \o fGroup \o <<"x","_">> \o fEndA \o fEndA
  /\ output = fBeginA \o <<NL," "," ">> \o fBeginA \o fGroup
              \o <<NL,"x",BS,"_",NL," "," ">> \o fEndA \o <<NL>> \o fEndA

\* the tree of \begin{A}x_\end{B} when \end{B} closed the block: one block
\* named by the trimmed A that holds the text x_ and nothing of \end{B}
ClosedBlock(A) ==
  Document(<<Environment(Trim(A),
                         <<Text(<<"x","_">>, Trim(A) \in mathEnvs)>>,
                         <<>>)>>)

\* \end{B} closed the block: the parse returned the tree of the closed
\* block and the end of input was not met inside the block
ClosedBy(A) ==
  /\ phase # "failed"
  /\ ast = ClosedBlock(A)
  /\ ~HasWarn("EOF in non-math env")
  /\ ~HasWarn("EOF in math env")

\* C23: in \begin{A}x_\end{B}, \end{B} closes the block iff the trimmed B
\* equals the trimmed A, blanks inside a name counting; the name stored in
\* the block is the trimmed A.
C23_TrimmedNameMatching ==
  \A A, B \in BlockNames :
    (pass = 0 /\ WasParsed /\ text = NameDoc(A, B))
      => /\ ClosedBy(A) <=> Trim(A) = Trim(B)
         /\ phase # "failed"
              => /\ Len(ast.children) = 1
                 /\ ast.children[1].type = "Environment"
                 /\ ast.children[1].name = Trim(A)

\* C23 witness: \begin{ a}x_\end{a } has been parsed to the closed block a
C23_Witness ==
  /\ phase = "parsed"
  /\ pass = 0
  /\ text = NameDoc(<<" ","a">>, <<"a"," ">>)
  /\ ast = Document(<<Environment(<<"a">>, <<Text(<<"x","_">>, FALSE)>>,
                                  <<>>)>>)

\* the step is a call of getNextToken on the lexer
IsCall == lexer'.calls = lexer.calls + 1

\* the step is a lookahead
IsLookahead == lexer'.lookaheads = lexer.lookaheads + 1

\* C24: the offset of the lexer stays within 0 .. Len(text) and never
\* decreases; a call that returns a token other than EOF increases it; a
\* lookahead leaves the offset and the current token as they were; after
\* EOF has been returned every call returns EOF.
C24_TokenizerCursor ==
  [][ /\ 0 <= lexer.pos /\ lexer.pos <= lexer'.pos /\ lexer'.pos <= Len(text)
      /\ (IsCall /\ lexer'.currentToken.type # TOKEN_EOF)
           => lexer'.pos > lexer.pos
      /\ IsLookahead => /\ lexer'.pos = lexer.pos
                        /\ lexer'.currentToken = lexer.currentToken
                        /\ lexer'.calls = lexer.calls
      /\ (IsCall /\ lexer.currentToken.type = TOKEN_EOF)
           => lexer'.currentToken.type = TOKEN_EOF ]_vars

\* C24 witness: on \end{a} the lookahead has matched the name a after the
\* first call, and calls went on after the one that returned EOF at the
\* end of the text
C24_Witness ==
  /\ text = fEnd \o <<"{","a","}">>
  /\ lexer.lookaheads = 1
  /\ lexer.calls = 6
  /\ lexer.currentToken.type = TOKEN_EOF
  /\ lexer.pos = Len(text)

\* the step is a turn of a loop
IsTurn == phase' \in {"looping", "threw"}

\* what a lexer and its parser have not consumed yet: the current token,
\* unless it is EOF, and the text after it
Unconsumed(lx) ==
  (Len(text) - lx.pos) + (IF lx.currentToken.type = TOKEN_EOF THEN 0 ELSE 1)

\* the turns were those of the loop of Parser.parse: no token was skipped
\* after the constructor
OnlyTurns == lexer.calls = 1

\* C25: every turn of a loop of the parser that does not throw consumes at
\* least one token; a loop is left at EOF, which is the
\* end of the text; the loop of Parser.parse taken turn by turn ends as
\* parseLatex does, with its Document or with its error; and every run of
\* turns ends, by leaving the loop or by throwing.
C25_ParserTermination ==
  /\ [][IsTurn => (phase' = "threw"
                  \/ Unconsumed(lexer') < Unconsumed(lexer))]_vars
  /\ [](phase = "stopped"
          => /\ lexer.currentToken.type = TOKEN_EOF
             /\ lexer.pos = Len(text))
  /\ []((phase = "stopped" /\ OnlyTurns)
          => /\ ParseLatex(text).ok
             /\ ParseLatex(text).ast = ast)
  /\ []((phase = "threw" /\ OnlyTurns)
          => /\ ~ParseLatex(text).ok
             /\ ParseLatex(text).error = error)
  /\ <>(phase \in {"stopped", "threw"})

\* C25 witness: the loop of Parser.parse has been left at the end of
\* \end{a}x_, after the turn that met the stray \end and kept no node and
\* four turns that kept one each
C25_Witness ==
  /\ phase = "stopped"
  /\ OnlyTurns
  /\ text = fEndA \o <<"x","_">>
  /\ Len(ast.children) = 4

RECURSIVE ClosingBrace(_, _, _)
\* the offset, from offset i on, of the "}" that closes a group inside
\* which braceDepth further groups are open; Len(t) when there is none
ClosingBrace(t, i, braceDepth) ==
  IF i >= Len(t) THEN Len(t)
  ELSE IF At(t, i) = "{" THEN ClosingBrace(t, i + 1, braceDepth + 1)
  ELSE IF At(t, i) = "}"
    THEN IF braceDepth = 0 THEN i
         ELSE ClosingBrace(t, i + 1, braceDepth - 1)
    ELSE ClosingBrace(t, i + 1, braceDepth)

\* the text between the "{" that follows \textbf and the "}" matching it
MatchedGroup ==
  Slice(text, Len(fTextbf) + 1, ClosingBrace(text, Len(fTextbf) + 1, 0))

\* C26: the first required argument of \textbf ends at the "}" that matches
\* its "{": when the document \textbf{...} has been parsed and the "{" has
\* a matching "}", the first node of the tree is the command and its first
\* required argument is the Document of everything between the two, a
\* balanced pair of braces inside included.
C26_RequiredArgumentExtent ==
  (/\ phase = "parsed"
   /\ HasPrefix(text, fTextbf \o <<"{">>)
   /\ ClosingBrace(text, Len(fTextbf) + 1, 0) < Len(text))
  => /\ Len(ast.children) >= 1
     /\ ast.children[1].type = "Command"
     /\ Len(ast.children[1].requiredArguments) >= 1
     /\ ast.children[1].requiredArguments[1] = ParseLatex(MatchedGroup).ast

\* the tree is a raw-argument command whose argument starts with a block
RawCommandWithBlock ==
  /\ Len(ast.children) = 1
  /\ ast.children[1].type = "Command"
  /\ ast.children[1].name \in rawArgumentCommands
  /\ Len(ast.children[1].requiredArguments) = 1
  /\ Len(ast.children[1].requiredArguments[1].children) = 1
  /\ ast.children[1].requiredArguments[1].children[1].type = "Environment"

\* the block in the argument of the raw-argument command
BlockInRawArgument == ast.children[1].requiredArguments[1].children[1]

\* \begin{name} and the argument groups of a block, each rendered raw and
\* wrapped in braces
BeginWithArgs(node) ==
  sBeginOpen \o node.name \o <<"}">>
  \o Concat([i \in 1..Len(node.environmentArguments) |->
               <<"{">> \o FormatRawNode(node.environmentArguments[i])
               \o <<"}">>])

\* C27: a block rendered in raw mode keeps its argument groups: when the
\* document is a raw-argument command whose argument is a block, the
\* formatted text holds \begin{name} directly followed by each argument
\* group of the block, brace-wrapped.
C27_RawBlockKeepsArgs ==
  (phase = "formatted" /\ RawCommandWithBlock)
  => ContainsSub(output, BeginWithArgs(BlockInRawArgument))

RECURSIVE BlockNamesIn(_)
\* the names of the blocks of a tree: the node itself, its children and
\* the Documents of its arguments
BlockNamesIn(node) ==
  (IF node.type = "Environment" THEN {node.name} ELSE {})
  \cup UNION { BlockNamesIn(node.children[i]) :
                 i \in 1..Len(node.children) }
  \cup UNION { BlockNamesIn(node.optionalArgument[i]) :
                 i \in 1..Len(node.optionalArgument) }
  \cup UNION { BlockNamesIn(node.requiredArguments[i]) :
                 i \in 1..Len(node.requiredArguments) }
  \cup UNION { BlockNamesIn(node.environmentArguments[i]) :
                 i \in 1..Len(node.environmentArguments) }

\* sub stands in t at offset i
OccursAt(t, i, sub) ==
  i + Len(sub) <= Len(t) /\ SubSeq(t, i + 1, i + Len(sub)) = sub

\* \end{name} stands in the output after offset i
EndFollows(i, name) ==
  \E j \in (i + 1)..Len(output) :
    OccursAt(output, j, sEndOpen \o name \o <<"}">>)

\* the output holds \begin{name} and, after it, \end{name}
OpenedAndClosed(name) ==
  \E i \in 0..Len(output) :
    /\ OccursAt(output, i, sBeginOpen \o name \o <<"}">>)
    /\ EndFollows(i, name)

\* C28: the formatter closes what the parser tolerated: for every non-math
\* block of the parsed tree, one left open at the end of the input
\* included, the formatted text holds \begin{name} and a following
\* \end{name} with the trimmed name; and every \begin{name} of the formatted
\* text is followed by its \end{name}.
C28_FormatterCloses ==
  phase = "formatted"
  => /\ \A name \in BlockNamesIn(ast) :
          Trim(name) \notin mathEnvs => OpenedAndClosed(Trim(name))
     /\ \A name \in { sA, <<"b">> } :
          \A i \in 0..Len(output) :
            OccursAt(output, i, sBeginOpen \o name \o <<"}">>)
              => EndFollows(i, name)

RECURSIVE BlockNamesRendered(_, _)
\* the names of the blocks of a tree that the formatter comes to: when a
\* block is rendered raw its argument groups are not rendered
BlockNamesRendered(node, raw) ==
  (IF node.type = "Environment" THEN {node.name} ELSE {})
  \cup UNION { BlockNamesRendered(node.children[i], raw) :
                 i \in 1..Len(node.children) }
  \cup UNION { BlockNamesRendered(node.optionalArgument[i],
                                  raw \/ node.name \in rawArgumentCommands) :
                 i \in 1..Len(node.optionalArgument) }
  \cup UNION { BlockNamesRendered(node.requiredArguments[i],
                                  raw \/ node.name \in rawArgumentCommands) :
                 i \in 1..Len(node.requiredArguments) }
  \cup (IF raw THEN {}
        ELSE UNION { BlockNamesRendered(node.environmentArguments[i], TRUE) :
                       i \in 1..Len(node.environmentArguments) })

\* every block the formatter comes to is opened and closed in the formatted
\* text, and every \begin{name} of the formatted text is followed by its
\* \end{name}
RenderedBlocksClosed ==
  phase = "formatted"
  => /\ \A name \in BlockNamesRendered(ast, FALSE) :
          Trim(name) \notin mathEnvs => OpenedAndClosed(Trim(name))
     /\ \A name \in { sA, <<"b">> } :
          \A i \in 0..Len(output) :
            OccursAt(output, i, sBeginOpen \o name \o <<"}">>)
              => EndFollows(i, name)

====
